---- MODULE Spec2Model ----
(***************************************************************************)
(* A model of the AI tool-dispatch pipeline of personal_dash:              *)
(*   features/ai_tools.py  call_local_llm, parse_and_execute_tool,         *)
(*                         execute_sql_query, natural_language_summary     *)
(*   core/database.py      execute_query                                   *)
(*                                                                         *)
(* Text is a sequence of characters, each character a one-character        *)
(* string.  A fixed run of message text in which no operator below looks   *)
(* for anything (it holds no brace, double quote, backslash or control     *)
(* character, and is never matched against a key, a keyword or a token)    *)
(* may be written as one element of the sequence.                          *)
(***************************************************************************)
EXTENDS Integers, Sequences, FiniteSets, TLC

VARIABLES
    pc,           \* position of the round: "idle", "called", "done", "skipped",
                  \* "crashed" (an exception left the round), "left" (the
                  \* user went back to the main menu)
    llmOut,       \* what the model did on the first pass: [kind, text]
    llmResponse,  \* what call_local_llm did: [how, text]
    result,       \* what parse_and_execute_tool returned: [cat, color, text]
    trace,        \* the calls of the round, in order
    evalArgs,     \* every string handed to eval() in the round, in order
    toolQuery,    \* the texts of the SQL branch: the resolved query, the query the
                  \* tool received, the summarizer's context, the tool's result
    env,          \* the round's environment: date, store and summarizer behaviour
    dbCommits,    \* commits performed on the store so far
    connOpen,     \* store connections currently open
    userQuery,    \* the round's question, as <<>> or <<text>>
    history,      \* CONVERSATION_HISTORY
    appended      \* every entry appended to the history since it was last empty

vars == <<pc, llmOut, llmResponse, result, trace, evalArgs, toolQuery, env,
          dbCommits, connOpen, userQuery, history, appended>>

----------------------------------------------------------------------------
(* Characters *)

QUOTE == "\""
BSL == "\\"
NL == "\n"
TAB == "\t"

\* str.strip() with no argument removes these
PyWhitespace == {" ", NL, TAB, "\r", "\f"}
\* the json decoder's WHITESPACE
JsonWs == {" ", NL, TAB, "\r"}
\* characters below 0x20, which the strict json decoder refuses inside a string
ControlChars == {NL, TAB, "\r", "\f"}
Digits == {"0", "1", "2", "3", "4", "5", "6", "7", "8", "9"}

LowerLetters == <<"a","b","c","d","e","f","g","h","i","j","k","l","m",
                  "n","o","p","q","r","s","t","u","v","w","x","y","z">>
UpperLetters == <<"A","B","C","D","E","F","G","H","I","J","K","L","M",
                  "N","O","P","Q","R","S","T","U","V","W","X","Y","Z">>

\* str.upper() on one character
UpperChar(c) ==
    IF \E i \in 1..26 : LowerLetters[i] = c
    THEN UpperLetters[CHOOSE i \in 1..26 : LowerLetters[i] = c]
    ELSE c

\* str.upper()
Upper(s) == [i \in 1..Len(s) |-> UpperChar(s[i])]

\* str.lower() on one character
LowerChar(c) ==
    IF \E i \in 1..26 : UpperLetters[i] = c
    THEN LowerLetters[CHOOSE i \in 1..26 : UpperLetters[i] = c]
    ELSE c

\* str.lower()
Lower(s) == [i \in 1..Len(s) |-> LowerChar(s[i])]

RECURSIVE LStrip(_)
LStrip(s) == IF s # <<>> /\ Head(s) \in PyWhitespace THEN LStrip(Tail(s)) ELSE s

RECURSIVE RStrip(_)
RStrip(s) ==
    IF s # <<>> /\ s[Len(s)] \in PyWhitespace
    THEN RStrip(SubSeq(s, 1, Len(s) - 1))
    ELSE s

\* str.strip()
Strip(s) == RStrip(LStrip(s))

\* str.startswith(p)
StartsWith(s, p) == Len(s) >= Len(p) /\ SubSeq(s, 1, Len(p)) = p

\* the text p occurs in s at position i
MatchAt(s, i, p) ==
    i + Len(p) - 1 <= Len(s) /\ \A k \in 1..Len(p) : s[i + k - 1] = p[k]

\* p is a contiguous part of s
Contains(s, p) == \E i \in 1..(Len(s) + 1) : MatchAt(s, i, p)

\* str.index(c) as a 1-based position; 0 where Python raises ValueError
IndexOf(s, c) ==
    IF \E i \in 1..Len(s) : s[i] = c
    THEN CHOOSE i \in 1..Len(s) : s[i] = c /\ \A j \in 1..(i - 1) : s[j] # c
    ELSE 0

\* str.replace(old, new) for a one-character old (the text is split in halves,
\* which keeps the evaluation shallow)
RECURSIVE ReplaceChar(_, _, _)
ReplaceChar(s, old, new) ==
    IF s = <<>> THEN <<>>
    ELSE IF Len(s) = 1 THEN (IF s[1] = old THEN new ELSE s)
    ELSE ReplaceChar(SubSeq(s, 1, Len(s) \div 2), old, new)
         \o ReplaceChar(SubSeq(s, (Len(s) \div 2) + 1, Len(s)), old, new)

----------------------------------------------------------------------------
(* json.loads: the strict decoder.  A decoded value is [k, s, m]: k its    *)
(* kind, s its text (a string's characters, a number's literal), m its     *)
(* members in order (an object's [key, val], an array's [key = <<>>, val]).*)

JNull == [k |-> "null", s |-> <<>>, m |-> <<>>]
JStr(chars) == [k |-> "str", s |-> chars, m |-> <<>>]
JNum(lit) == [k |-> "num", s |-> lit, m |-> <<>>]
JBool(b) == [k |-> IF b THEN "true" ELSE "false", s |-> <<>>, m |-> <<>>]
JObj(members) == [k |-> "obj", s |-> <<>>, m |-> members]
JArr(members) == [k |-> "arr", s |-> <<>>, m |-> members]

JFail == [ok |-> FALSE, v |-> JNull, n |-> 0]
JOk(v, n) == [ok |-> TRUE, v |-> v, n |-> n]

RECURSIVE SkipWs(_, _)
SkipWs(s, i) == IF i <= Len(s) /\ s[i] \in JsonWs THEN SkipWs(s, i + 1) ELSE i

RECURSIVE SkipDigits(_, _)
SkipDigits(s, i) == IF i <= Len(s) /\ s[i] \in Digits THEN SkipDigits(s, i + 1) ELSE i

\* the character an escape sequence \c stands for; BSL "b" is a backspace
Unescape(c) ==
    CASE c = QUOTE -> QUOTE
      [] c = BSL -> BSL
      [] c = "/" -> "/"
      [] c = "n" -> NL
      [] c = "t" -> TAB
      [] c = "r" -> "\r"
      [] c = "f" -> "\f"
      [] c = "b" -> "<BS>"
      [] OTHER -> ""

\* the number of backslashes that run up to position j - 1, from position i on
BslRun(s, i, j) ==
    CHOOSE k \in 0..(j - i) :
        /\ \A t \in 1..k : s[j - t] = BSL
        /\ (k = j - i \/ s[j - k - 1] # BSL)

\* whether an odd run of backslashes precedes position j
Escaped(s, i, j) == BslRun(s, i, j) % 2 = 1

\* the k-th position of units in increasing order
NthOf(units, k) == CHOOSE j \in units : Cardinality({q \in units : q < j}) = k - 1

\* the character a unit at position j stands for
UnitChar(s, j) == IF s[j] = BSL THEN Unescape(s[j + 1]) ELSE s[j]

\* the decoded characters of s[i..close-1]; units are the positions where a
\* character or an escape starts
StringChars(s, i, close, units) ==
    IF \A j \in i..(close - 1) : s[j] # BSL
    THEN SubSeq(s, i, close - 1)
    ELSE [k \in 1..Cardinality(units) |-> UnitChar(s, NthOf(units, k))]

StringUnits(s, i, close, units) ==
    IF \E j \in units : s[j] = BSL /\ Unescape(s[j + 1]) = "" THEN JFail
    ELSE JOk(JStr(StringChars(s, i, close, units)), close + 1)

\* the string ends at position close
StringBody(s, i, close) ==
    IF \E j \in i..(close - 1) : s[j] \in ControlChars THEN JFail
    ELSE StringUnits(s, i, close, {j \in i..(close - 1) : ~Escaped(s, i, j)})

StringClose(s, i, closes) ==
    IF closes = {} THEN JFail
    ELSE StringBody(s, i, CHOOSE j \in closes : \A q \in closes : j <= q)

\* py_scanstring from position i, the character after the opening quote.  The
\* string ends at the first quote that no backslash escapes; a character is
\* escaped when an odd run of backslashes precedes it.  (\uXXXX escapes occur in
\* no text of this model and are not decoded.)
json_string(s, i) ==
    StringClose(s, i, {j \in i..Len(s) : s[j] = QUOTE /\ ~Escaped(s, i, j)})

\* NUMBER_RE: -? (0 | [1-9]\d*) (\.\d+)? ([eE][-+]?\d+)?
\* the literal runs from i to e - 1
NumberLit(s, i, e) == JOk(JNum(SubSeq(s, i, e - 1)), e)

\* the exponent: d the position after [eE][-+]?, g the end of its digits; the
\* group takes part only when it has a digit
NumberExp(s, i, c, d, g) == NumberLit(s, i, IF d > c /\ g > d THEN g ELSE c)

ExpStart(s, c) ==
    IF c <= Len(s) /\ s[c] \in {"e", "E"}
    THEN IF c + 1 <= Len(s) /\ s[c + 1] \in {"+", "-"} THEN c + 2 ELSE c + 1
    ELSE c

NumberTail(s, i, c, d) == NumberExp(s, i, c, d, SkipDigits(s, d))

\* the fraction: b the end of the integer part, f the end of the digits after b
NumberFrac(s, i, b, f) ==
    IF b <= Len(s) /\ s[b] = "." /\ f > b + 1
    THEN NumberTail(s, i, f, ExpStart(s, f))
    ELSE NumberTail(s, i, b, ExpStart(s, b))

\* the integer part from a to b - 1
NumberInt(s, i, a, b) ==
    IF b = a THEN JFail ELSE NumberFrac(s, i, b, SkipDigits(s, b + 1))

NumberSigned(s, i, a) ==
    NumberInt(s, i, a, IF a <= Len(s) /\ s[a] = "0" THEN a + 1 ELSE SkipDigits(s, a))

json_number(s, i) == NumberSigned(s, i, IF s[i] = "-" THEN i + 1 ELSE i)

RECURSIVE json_value(_, _)
RECURSIVE json_members(_, _, _)
RECURSIVE json_elements(_, _, _)

\* JSONObject: after a member at position e - 1, all the members so far
MembersNext(s, e, all) ==
    IF e > Len(s) THEN JFail
    ELSE IF s[e] = "}" THEN JOk(JObj(all), e + 1)
    ELSE IF s[e] # "," THEN JFail
    ELSE IF SkipWs(s, e + 1) <= Len(s) /\ s[SkipWs(s, e + 1)] = QUOTE
    THEN json_members(s, SkipWs(s, e + 1) + 1, all)
    ELSE JFail

\* JSONObject: the value val of the key k
MembersValue(s, k, val, acc) ==
    IF ~val.ok THEN JFail
    ELSE MembersNext(s, SkipWs(s, val.n), Append(acc, [key |-> k, val |-> val.v]))

\* JSONObject: the colon at position c after the key k
MembersColon(s, k, c, acc) ==
    IF c > Len(s) THEN JFail
    ELSE IF s[c] # ":" THEN JFail
    ELSE MembersValue(s, k, json_value(s, SkipWs(s, c + 1)), acc)

MembersKey(s, key, acc) ==
    IF ~key.ok THEN JFail
    ELSE MembersColon(s, key.v.s, SkipWs(s, key.n), acc)

\* JSONObject after a key's opening quote at position i - 1
json_members(s, i, acc) == MembersKey(s, json_string(s, i), acc)

\* JSONArray: after an element at position e - 1, all the elements so far
ElementsNext(s, e, all) ==
    IF e > Len(s) THEN JFail
    ELSE IF s[e] = "]" THEN JOk(JArr(all), e + 1)
    ELSE IF s[e] # "," THEN JFail
    ELSE json_elements(s, SkipWs(s, e + 1), all)

ElementsValue(s, val, acc) ==
    IF ~val.ok THEN JFail
    ELSE ElementsNext(s, SkipWs(s, val.n), Append(acc, [key |-> <<>>, val |-> val.v]))

\* JSONArray from the first element at position i
json_elements(s, i, acc) == ElementsValue(s, json_value(s, i), acc)

\* JSONObject from position q, the first position after "{" and whitespace
ObjectAt(s, q) ==
    IF q > Len(s) THEN JFail
    ELSE IF s[q] = "}" THEN JOk(JObj(<<>>), q + 1)
    ELSE IF s[q] = QUOTE THEN json_members(s, q + 1, <<>>)
    ELSE JFail

\* JSONArray from position q, the first position after "[" and whitespace
ArrayAt(s, q) ==
    IF q > Len(s) THEN JFail
    ELSE IF s[q] = "]" THEN JOk(JArr(<<>>), q + 1)
    ELSE json_elements(s, q, <<>>)

\* scan_once at position i
json_value(s, i) ==
    IF i > Len(s) THEN JFail
    ELSE IF s[i] = QUOTE THEN json_string(s, i + 1)
    ELSE IF s[i] = "{" THEN ObjectAt(s, SkipWs(s, i + 1))
    ELSE IF s[i] = "[" THEN ArrayAt(s, SkipWs(s, i + 1))
    ELSE IF MatchAt(s, i, <<"n","u","l","l">>) THEN JOk(JNull, i + 4)
    ELSE IF MatchAt(s, i, <<"t","r","u","e">>) THEN JOk(JBool(TRUE), i + 4)
    ELSE IF MatchAt(s, i, <<"f","a","l","s","e">>) THEN JOk(JBool(FALSE), i + 5)
    ELSE IF s[i] = "-" \/ s[i] \in Digits THEN json_number(s, i)
    ELSE JFail

\* JSONDecoder.decode: the value r must be followed by whitespace only
Decoded(s, r) ==
    IF r.ok /\ SkipWs(s, r.n) = Len(s) + 1
    THEN [ok |-> TRUE, v |-> r.v]
    ELSE [ok |-> FALSE, v |-> JNull]

\* json.loads(s): [ok, v]; ok = FALSE where Python raises JSONDecodeError
json_loads(s) == Decoded(s, json_value(s, SkipWs(s, 1)))

\* `key in d` and d[key] / d.get(key) on a decoded object (the last duplicate wins)
HasKey(obj, key) == \E i \in 1..Len(obj.m) : obj.m[i].key = key
GetKey(obj, key) ==
    obj.m[CHOOSE i \in 1..Len(obj.m) :
            obj.m[i].key = key /\ \A j \in (i + 1)..Len(obj.m) : obj.m[j].key # key].val

----------------------------------------------------------------------------
(* Decimal text of integers *)

DigitSeq == <<"0", "1", "2", "3", "4", "5", "6", "7", "8", "9">>
DigitVal(c) == (CHOOSE i \in 1..10 : DigitSeq[i] = c) - 1

\* the value of a run of decimal digits
RECURSIVE DigitsToNat(_)
DigitsToNat(ds) ==
    IF ds = <<>> THEN 0
    ELSE DigitsToNat(SubSeq(ds, 1, Len(ds) - 1)) * 10 + DigitVal(ds[Len(ds)])

RECURSIVE NatToDigits(_)
NatToDigits(n) ==
    IF n < 10 THEN <<DigitSeq[n + 1]>>
    ELSE NatToDigits(n \div 10) \o <<DigitSeq[(n % 10) + 1]>>

\* str(n) for an int
IntToStr(n) == IF n < 0 THEN <<"-">> \o NatToDigits(0 - n) ELSE NatToDigits(n)

\* f"{n:02d}": at least two characters wide, the sign counted, zero filled
Format02d(n) ==
    IF n < 0 THEN <<"-">> \o NatToDigits(0 - n)
    ELSE IF n < 10 THEN <<"0">> \o NatToDigits(n)
    ELSE NatToDigits(n)

----------------------------------------------------------------------------
(* Placeholder substitution: parse_and_execute_tool, the execute_sql_query *)
(* branch.                                                                 *)

\* the literal head of pattern_year and of pattern_month, and the common tail
YearHead == <<"{","{","C","U","R","R","E","N","T","_","Y","E","A","R">>
MonthHead == <<"{","{","C","U","R","R","E","N","T","_","M","O","N","T","H">>
TokenTail == <<"}", "}">>

\* the pattern with the digits optional, head([+\-]\d*)?\}\}
PatternAtLoose(s, i, head) ==
    IF ~MatchAt(s, i, head) THEN [hit |-> FALSE, arith |-> <<>>, next |-> i]
    ELSE IF MatchAt(s, i + Len(head), TokenTail)
    THEN [hit |-> TRUE, arith |-> <<>>, next |-> i + Len(head) + 2]
    ELSE IF i + Len(head) <= Len(s) /\ s[i + Len(head)] \in {"+", "-"}
            /\ MatchAt(s, SkipDigits(s, i + Len(head) + 1), TokenTail)
    THEN [hit |-> TRUE,
          arith |-> SubSeq(s, i + Len(head), SkipDigits(s, i + Len(head) + 1) - 1),
          next |-> SkipDigits(s, i + Len(head) + 1) + 2]
    ELSE [hit |-> FALSE, arith |-> <<>>, next |-> i]

\* One attempt of  head([+\-]\d+)?\}\}  at position i of s:
\* [hit, arith (group 1, <<>> when it did not take part), next (first position
\* after the match)].
PatternAt(s, i, head) ==
    LET a == i + Len(head)
        d == IF a <= Len(s) /\ s[a] \in {"+", "-"} THEN SkipDigits(s, a + 1) ELSE a
    IN  IF ~MatchAt(s, i, head) THEN [hit |-> FALSE, arith |-> <<>>, next |-> i]
        ELSE IF MatchAt(s, a, TokenTail)
            THEN [hit |-> TRUE, arith |-> <<>>, next |-> a + 2]
        ELSE IF d > a + 1 /\ MatchAt(s, d, TokenTail)
            THEN [hit |-> TRUE, arith |-> SubSeq(s, a, d - 1), next |-> d + 2]
        ELSE [hit |-> FALSE, arith |-> <<>>, next |-> i]

\* A Python decimal integer literal: no leading zero unless every digit is zero.
IsPyIntLiteral(ds) ==
    /\ ds # <<>>
    /\ \A k \in 1..Len(ds) : ds[k] \in Digits
    /\ (ds[1] = "0" => \A k \in 1..Len(ds) : ds[k] = "0")

\* eval of  left sign right
EvalParts(left, sign, right) ==
    IF IsPyIntLiteral(left) /\ sign \in {"+", "-"} /\ IsPyIntLiteral(right)
    THEN [ok |-> TRUE,
          val |-> IF sign = "+" THEN DigitsToNat(left) + DigitsToNat(right)
                  ELSE DigitsToNat(left) - DigitsToNat(right)]
    ELSE [ok |-> FALSE, val |-> 0]

\* body is the expression without its spaces, n the end of its first digits
EvalAt(body, n) ==
    EvalParts(SubSeq(body, 1, n - 1),
              IF n <= Len(body) THEN body[n] ELSE "",
              SubSeq(body, n + 1, Len(body)))

EvalBody(body) == EvalAt(body, SkipDigits(body, 1))

\* eval(expr) for expr = <decimal int> [space] <sign> <digits>:
\* [ok, val]; ok = FALSE where eval raises (SyntaxError on a leading zero).
py_eval(expr) == EvalBody(ReplaceChar(expr, " ", <<>>))

\* an expression that drops the sign of the offset
YearExprUnsigned(current_year, arithmetic) == IntToStr(current_year) \o Tail(arithmetic)

\* the string replace_year hands to eval
YearExpr(current_year, arithmetic) == IntToStr(current_year) \o arithmetic

\* lines 403-409: r is what eval gave
YearOf(current_year, r) == IF r.ok THEN IntToStr(r.val) ELSE IntToStr(current_year)

replace_year(current_year, arithmetic) ==
    IF arithmetic = <<>> THEN IntToStr(current_year)
    ELSE YearOf(current_year, py_eval(YearExpr(current_year, arithmetic)))

\* the string replace_month hands to eval
MonthExpr(current_month, arithmetic) == IntToStr(current_month) \o <<" ">> \o arithmetic

\* lines 414-423: r is what eval gave
MonthOf(current_month, r) == Format02d(IF r.ok THEN r.val ELSE current_month)

replace_month(current_month, arithmetic) ==
    IF arithmetic = <<>> THEN Format02d(current_month)
    ELSE MonthOf(current_month, py_eval(MonthExpr(current_month, arithmetic)))

\* the leftmost position from i on where the pattern matches, 0 when none does
FirstOf(hits) == IF hits = {} THEN 0 ELSE CHOOSE j \in hits : \A q \in hits : j <= q

FirstHit(s, i, head) == FirstOf({j \in i..Len(s) : PatternAt(s, j, head).hit})

\* a substitution's text and eval arguments followed by those of the rest
SubJoin(text, evals, rest) == [text |-> text \o rest.text, evals |-> evals \o rest.evals]

\* re.sub(pattern_year, replace_year, s) from position i: [text, evals].  re.sub
\* replaces the leftmost match and goes on after it; the text between two
\* matches is copied.
RECURSIVE sub_year(_, _, _)
SubYearMatch(s, i, j, m, current_year) ==
    SubJoin(SubSeq(s, i, j - 1) \o replace_year(current_year, m.arith),
            IF m.arith = <<>> THEN <<>> ELSE <<YearExpr(current_year, m.arith)>>,
            sub_year(s, m.next, current_year))

SubYearAt(s, i, j, current_year) ==
    IF j = 0 THEN [text |-> SubSeq(s, i, Len(s)), evals |-> <<>>]
    ELSE SubYearMatch(s, i, j, PatternAt(s, j, YearHead), current_year)

sub_year(s, i, current_year) == SubYearAt(s, i, FirstHit(s, i, YearHead), current_year)

\* re.sub(pattern_month, replace_month, s) from position i: [text, evals]
RECURSIVE sub_month(_, _, _)
SubMonthMatch(s, i, j, m, current_month) ==
    SubJoin(SubSeq(s, i, j - 1) \o replace_month(current_month, m.arith),
            IF m.arith = <<>> THEN <<>> ELSE <<MonthExpr(current_month, m.arith)>>,
            sub_month(s, m.next, current_month))

SubMonthAt(s, i, j, current_month) ==
    IF j = 0 THEN [text |-> SubSeq(s, i, Len(s)), evals |-> <<>>]
    ELSE SubMonthMatch(s, i, j, PatternAt(s, j, MonthHead), current_month)

sub_month(s, i, current_month) ==
    SubMonthAt(s, i, FirstHit(s, i, MonthHead), current_month)

\* the month substitution on the text the year substitution gave
ResolveMonth(y, m) == [text |-> m.text, evals |-> y.evals \o m.evals]

ResolveYear(y, current_month) == ResolveMonth(y, sub_month(y.text, 1, current_month))

\* the two substitutions in the code's order, the year first: [text, evals]
resolve_placeholders(raw_query, current_year, current_month) ==
    ResolveYear(sub_year(raw_query, 1, current_year), current_month)

----------------------------------------------------------------------------
(* Key and tool names, as text *)

K_error == <<"e","r","r","o","r">>
K_function == <<"f","u","n","c","t","i","o","n">>
K_args == <<"a","r","g","s">>
K_arguments == <<"a","r","g","u","m","e","n","t","s">>
K_response == <<"r","e","s","p","o","n","s","e">>
K_query == <<"q","u","e","r","y">>
K_status == <<"s","t","a","t","u","s">>
K_message == <<"m","e","s","s","a","g","e">>
K_data == <<"d","a","t","a">>
K_days_overseas == <<"d","a","y","s","_","o","v","e","r","s","e","a","s">>
K_days_overtime == <<"d","a","y","s","_","o","v","e","r","t","i","m","e">>
K_base_salary == <<"b","a","s","e","_","s","a","l","a","r","y">>
K_target_year == <<"t","a","r","g","e","t","_","y","e","a","r">>
K_target_month == <<"t","a","r","g","e","t","_","m","o","n","t","h">>

N_respond_conversationally == <<"r","e","s","p","o","n","d","_","c","o","n","v","e","r","s","a","t","i","o","n","a","l","l","y">>
N_query_salary_allowance == <<"q","u","e","r","y","_","s","a","l","a","r","y","_","a","l","l","o","w","a","n","c","e">>
N_query_document_expiry == <<"q","u","e","r","y","_","d","o","c","u","m","e","n","t","_","e","x","p","i","r","y">>
N_execute_sql_query == <<"e","x","e","c","u","t","e","_","s","q","l","_","q","u","e","r","y">>

\* the keys of ALLOWED_TOOLS
ALLOWED_TOOLS ==
    {N_respond_conversationally, N_query_salary_allowance,
     N_query_document_expiry, N_execute_sql_query}

T_SELECT == <<"S","E","L","E","C","T">>
T_error == K_error
T_no_results == <<"n","o","_","r","e","s","u","l","t","s">>
T_success == <<"s","u","c","c","e","s","s">>
T_NULL == <<"N","U","L","L">>

----------------------------------------------------------------------------
(* json.dumps with the default separators *)

EscapeChar(c) ==
    CASE c = QUOTE -> <<BSL, QUOTE>>
      [] c = BSL -> <<BSL, BSL>>
      [] c = NL -> <<BSL, "n">>
      [] c = TAB -> <<BSL, "t">>
      [] c = "\r" -> <<BSL, "r">>
      [] c = "\f" -> <<BSL, "f">>
      [] OTHER -> <<c>>

\* py_encode_basestring_ascii on the characters of a string (split in halves)
RECURSIVE EscapeJson(_)
EscapeJson(s) ==
    IF s = <<>> THEN <<>>
    ELSE IF Len(s) = 1 THEN EscapeChar(s[1])
    ELSE EscapeJson(SubSeq(s, 1, Len(s) \div 2))
         \o EscapeJson(SubSeq(s, (Len(s) \div 2) + 1, Len(s)))

RECURSIVE json_dumps(_)
RECURSIVE DumpMembers(_, _, _)
DumpMembers(ms, i, isObj) ==
    IF i > Len(ms) THEN <<>>
    ELSE (IF i > 1 THEN <<",", " ">> ELSE <<>>)
         \o (IF isObj THEN <<QUOTE>> \o EscapeJson(ms[i].key) \o <<QUOTE, ":", " ">>
             ELSE <<>>)
         \o json_dumps(ms[i].val)
         \o DumpMembers(ms, i + 1, isObj)

json_dumps(v) ==
    CASE v.k = "str" -> <<QUOTE>> \o EscapeJson(v.s) \o <<QUOTE>>
      [] v.k = "num" -> v.s
      [] v.k = "null" -> <<"n","u","l","l">>
      [] v.k = "true" -> <<"t","r","u","e">>
      [] v.k = "false" -> <<"f","a","l","s","e">>
      [] v.k = "arr" -> <<"[">> \o DumpMembers(v.m, 1, FALSE) \o <<"]">>
      [] v.k = "obj" -> <<"{">> \o DumpMembers(v.m, 1, TRUE) \o <<"}">>

\* a dict literal, from <<key, value>> pairs
Dict(pairs) == JObj([i \in 1..Len(pairs) |-> [key |-> pairs[i][1], val |-> pairs[i][2]]])

\* str(v) inside an f-string, for a decoded value
PyStr(v) ==
    CASE v.k = "str" -> v.s
      [] v.k = "num" -> v.s
      [] v.k = "null" -> <<"None">>
      [] v.k = "true" -> <<"True">>
      [] v.k = "false" -> <<"False">>
      [] OTHER -> <<"<repr>">> \o json_dumps(v)

----------------------------------------------------------------------------
(* call_local_llm *)

\* the first position from i on holding a brace, Len + 1 when there is none
NextBrace(text, i) ==
    IF \E j \in i..Len(text) : text[j] \in {"{", "}"}
    THEN CHOOSE j \in i..Len(text) :
            text[j] \in {"{", "}"} /\ \A q \in i..(j - 1) : text[q] \notin {"{", "}"}
    ELSE Len(text) + 1

\* the brace-counting loop of lines 329-339 over potential_json from position i
\* (1-based) with brace_count braces open: the 1-based end_index, 0 for the
\* code's -1.  The loop's test can only succeed on a brace, potential_json
\* starting with one, so the characters between two braces are passed over.
RECURSIVE BraceScan(_, _, _)
\* a scan that stops at the first brace that closes any object
BraceCountedShallow(potential_json, j, n) ==
    IF n <= 1 /\ j > 1 THEN j ELSE BraceScan(potential_json, j + 1, n)

\* the brace at position j leaves n braces open
BraceCounted(potential_json, j, n) ==
    IF n = 0 /\ j > 1 THEN j ELSE BraceScan(potential_json, j + 1, n)

BraceAt(potential_json, j, brace_count) ==
    IF j > Len(potential_json) THEN 0
    ELSE BraceCounted(potential_json, j,
                      IF potential_json[j] = "{" THEN brace_count + 1
                      ELSE brace_count - 1)

BraceScan(potential_json, i, brace_count) ==
    BraceAt(potential_json, NextBrace(potential_json, i), brace_count)

\* llm_output_text.replace("\"", "''")
SanitizeRaw(text) == ReplaceChar(text, QUOTE, <<"'", "'">>)

\* the payload of lines 351 and 353
NotCleanPayload(llm_output_text) ==
    <<"{", QUOTE>> \o K_error \o <<QUOTE, ":", " ", QUOTE,
      "LLM output was not clean JSON. Raw text: ">>
    \o SanitizeRaw(llm_output_text) \o <<QUOTE, "}">>

\* the payload of line 317
InferenceFailedPayload(e) ==
    <<"{", QUOTE>> \o K_error \o <<QUOTE, ":", " ", QUOTE,
      "LLM Inference Failed during call: ">> \o e \o <<QUOTE, "}">>

\* a slice handed on without the json.loads check
CleanUnchecked(llm_output_text, clean_json) ==
    IF clean_json # <<>> THEN clean_json ELSE NotCleanPayload(llm_output_text)

\* lines 343-351: clean_json is the stripped slice
CleanOrPayload(llm_output_text, clean_json) ==
    IF ~json_loads(clean_json).ok THEN NotCleanPayload(llm_output_text)
    ELSE IF clean_json # <<>> THEN clean_json
    ELSE NotCleanPayload(llm_output_text)

\* lines 341-343: end_index closes the slice of potential_json
SliceTo(llm_output_text, potential_json, end_index) ==
    IF end_index = 0 THEN NotCleanPayload(llm_output_text)
    ELSE CleanOrPayload(llm_output_text, Strip(SubSeq(potential_json, 1, end_index)))

SliceFrom(llm_output_text, potential_json) ==
    SliceTo(llm_output_text, potential_json, BraceScan(potential_json, 1, 0))

\* a scan that starts at the head of the output, not at its first "{"
ExtractFromHead(llm_output_text, start_index) ==
    IF start_index = 0 THEN NotCleanPayload(llm_output_text)
    ELSE SliceFrom(llm_output_text, llm_output_text)

\* lines 325-327: start_index is where the first "{" stands, 0 when none does
ExtractFrom(llm_output_text, start_index) ==
    IF start_index = 0 THEN NotCleanPayload(llm_output_text)
    ELSE SliceFrom(llm_output_text,
                   SubSeq(llm_output_text, start_index, Len(llm_output_text)))

\* the try block of lines 325-353 on the stripped output
ExtractJson(llm_output_text) ==
    ExtractFrom(llm_output_text, IndexOf(llm_output_text, "{"))

\* call_local_llm for a behaviour of the model, out = [kind, text]:
\*   "unloaded"  load_local_llm() gives None
\*   "raise"     llm(...) raises, text the exception's message
\*   "badshape"  llm(...) returns a value without ["choices"][0]["text"]
\*   "text"      llm(...) returns text as the completion
\* The answer is [how, text]: how = "value" (text returned), "none" (None
\* returned) or "raised" (an exception left the function).
call_local_llm(out) ==
    CASE out.kind = "unloaded" -> [how |-> "none", text |-> <<>>]
      [] out.kind = "raise" -> [how |-> "value", text |-> InferenceFailedPayload(out.text)]
      [] out.kind = "badshape" -> [how |-> "raised", text |-> <<>>]
      [] out.kind = "text" -> [how |-> "value", text |-> ExtractJson(Strip(out.text))]

----------------------------------------------------------------------------
(* The store: core/database.py execute_query.  A behaviour of the store on *)
(* one statement is [kind, columns, rows, msg]:                            *)
(*   "rows"          cursor.execute succeeds; columns and rows are what a  *)
(*                   SELECT fetches (a value is a decoded num, str or null)*)
(*   "sqlite_error"  cursor.execute raises sqlite3.Error(msg)              *)
(*   "other_error"   cursor.execute raises another exception type          *)

\* a guard that looks for the keyword anywhere in the statement
IsSelectAnywhere(query) == Contains(Upper(query), T_SELECT)

\* query.strip().upper().startswith('SELECT')
IsSelect(query) == StartsWith(Upper(Strip(query)), T_SELECT)

\* a store whose SELECT test looks at the statement as written, not stripped
execute_query_unstripped(query, store) ==
    LET base == [how |-> "value", isNone |-> FALSE, columns |-> <<>>, results |-> <<>>,
                 msg |-> <<>>, commits |-> 0, leaked |-> 0]
    IN  CASE store.kind = "sqlite_error" ->
                [base EXCEPT !.how = "sqlite_error",
                             !.msg = <<"Database error executing query: ">> \o store.msg]
          [] store.kind = "other_error" ->
                [base EXCEPT !.how = "other_error", !.msg = store.msg, !.leaked = 1]
          [] OTHER ->
                IF StartsWith(Upper(query), T_SELECT)
                THEN [base EXCEPT !.columns = store.columns, !.results = store.rows]
                ELSE [base EXCEPT !.isNone = TRUE, !.commits = 1]

\* [how, isNone, columns, results, msg, commits, leaked]: how = "value" or the
\* kind of exception raised; isNone for the (None, None) of the commit branch;
\* leaked = 1 when the connection opened by the call is left open.
execute_query(query, store) ==
    LET base == [how |-> "value", isNone |-> FALSE, columns |-> <<>>, results |-> <<>>,
                 msg |-> <<>>, commits |-> 0, leaked |-> 0]
    IN  CASE store.kind = "sqlite_error" ->
                [base EXCEPT !.how = "sqlite_error",
                             !.msg = <<"Database error executing query: ">> \o store.msg]
          [] store.kind = "other_error" ->
                [base EXCEPT !.how = "other_error", !.msg = store.msg, !.leaked = 1]
          [] OTHER ->
                IF IsSelect(query)
                THEN [base EXCEPT !.columns = store.columns, !.results = store.rows]
                ELSE [base EXCEPT !.isNone = TRUE, !.commits = 1]

----------------------------------------------------------------------------
(* Tool executors *)

\* a conversational tool that trims its text
respond_trimmed(response) == Strip(response)

respond_conversationally(response) == response

\* an envelope for a failure that carries the status of a success
ErrorEnvelopeUnmarked(message) ==
    json_dumps(Dict(<< <<K_status, JStr(T_success)>>, <<K_message, JStr(message)>> >>))

ErrorEnvelope(message) ==
    json_dumps(Dict(<< <<K_status, JStr(T_error)>>, <<K_message, JStr(message)>> >>))

IsZeroOrNone(v) ==
    v.k = "null" \/ (v.k = "num" /\ v.s \in {<<"0">>, <<"0", ".", "0">>, <<"-", "0">>})

\* lines 136-141
is_aggregate_zero(columns, results) ==
    /\ Len(results) = 1
    /\ Len(columns) = 1
    /\ IsZeroOrNone(results[1][1])
    /\ \E agg \in {<<"S","U","M">>, <<"C","O","U","N","T">>, <<"A","V","G">>} :
          Contains(Upper(columns[1]), agg)

\* lines 148-154: one row as a dict, None shown as "NULL"
RowDict(columns, row) ==
    LET n == IF Len(columns) < Len(row) THEN Len(columns) ELSE Len(row)
    IN  JObj([i \in 1..n |->
                [key |-> columns[i],
                 val |-> IF row[i].k = "null" THEN JStr(T_NULL) ELSE row[i]]])

\* what execute_sql_query returns after its call of execute_query gave r
SqlOut(text, r) == [text |-> text, calls |-> 1, commits |-> r.commits, leaked |-> r.leaked]

\* lines 143-146
NoResults(query, columns, isZero) ==
    json_dumps(Dict(<<
        <<K_status, JStr(T_no_results)>>,
        <<K_data, IF isZero THEN Dict(<< <<columns[1], JNum(<<"0", ".", "0">>)>> >>)
                  ELSE JArr(<<>>)>>,
        <<K_query, JStr(query)>> >>))

\* lines 148-157
Success(columns, results) ==
    json_dumps(Dict(<<
        <<K_status, JStr(T_success)>>,
        <<K_data, JArr([i \in 1..Len(results) |->
                          [key |-> <<>>, val |-> RowDict(columns, results[i])]])>> >>))

\* lines 134-157 on the rows fetched
SqlRows(query, columns, results, isZero) ==
    IF results = <<>> \/ isZero THEN NoResults(query, columns, isZero)
    ELSE Success(columns, results)

\* lines 133-161: r is what execute_query did
SqlFetched(query, r) ==
    IF r.how # "value"
    THEN SqlOut(ErrorEnvelope(<<"Database Error: ">> \o r.msg), r)
    ELSE IF r.isNone
    THEN SqlOut(ErrorEnvelope(<<"Database Error: ",
                                "object of type 'NoneType' has no len()">>), r)
    ELSE SqlOut(SqlRows(query, r.columns, r.results,
                        is_aggregate_zero(r.columns, r.results)), r)

\* execute_sql_query: [text, calls, commits, leaked]; calls counts execute_query calls
execute_sql_query(query, store) ==
    IF ~IsSelect(query)
    THEN [text |-> ErrorEnvelope(
                      <<"Only safe SELECT queries are permitted for data analysis.">>),
          calls |-> 0, commits |-> 0, leaked |-> 0]
    ELSE SqlFetched(query, execute_query(query, store))

\* the statement query_document_expiry builds (lines 104-110); the dates are
\* formatted into it, the layout text is written as runs
DocumentSql(target_year, target_month) ==
    <<NL, " "," "," "," "," "," "," "," ">> \o T_SELECT
    \o <<" name, expiry_date", NL, " FROM documents", NL,
         " WHERE STRFTIME('%Y', expiry_date) = '">> \o target_year \o <<"' ">>
    \o (IF target_month = <<>> THEN <<>>
        ELSE <<"AND STRFTIME('%m', expiry_date) = '">> \o target_month \o <<"'">>)
    \o <<NL, " "," "," "," ">>

RECURSIVE JoinRows(_, _)
JoinRows(rows, i) ==
    IF i > Len(rows) THEN <<>>
    ELSE (IF i > 1 THEN <<",", " ">> ELSE <<>>)
         \o PyStr(rows[i][1]) \o <<" on ">> \o PyStr(rows[i][2])
         \o JoinRows(rows, i + 1)

\* what query_document_expiry does after its call of execute_query gave r
DocumentOut(how, text, r) ==
    [how |-> how, text |-> text, calls |-> 1, commits |-> r.commits, leaked |-> r.leaked]

\* lines 114-121: year and month as the arguments gave them, month <<>> when absent
DocumentFetched(year, month, r) ==
    IF r.how # "value"
    THEN DocumentOut("value",
                     <<"ERROR: Could not query database for expiry: ">> \o r.msg, r)
    ELSE IF r.results # <<>>
    THEN IF \A i \in 1..Len(r.results) : Len(r.results[i]) = 2
         THEN DocumentOut("value", <<"Documents expiring in the requested period: ">>
                                   \o JoinRows(r.results, 1), r)
         ELSE DocumentOut("raised", <<"not enough values to unpack">>, r)
    ELSE DocumentOut("value",
                     <<"No documents found expiring ">>
                     \o (IF month = <<>> THEN <<"in the year ">> \o year
                         ELSE <<" in ">> \o month \o <<"/">> \o year)
                     \o <<".">>, r)

\* lines 104-112: the statement is built and run
DocumentQuery(year, month, padded, store) ==
    DocumentFetched(year, month, execute_query(DocumentSql(year, padded), store))

\* query_document_expiry: [how, text, calls, commits, leaked]; args the validated
\* arguments; how = "raised" when the row unpacking of line 118 fails
query_document_expiry(args, store) ==
    IF HasKey(args, K_target_month)
    THEN DocumentQuery(GetKey(args, K_target_year).s,
                       GetKey(args, K_target_month).s,
                       Format02d(DigitsToNat(GetKey(args, K_target_month).s)),
                       store)
    ELSE DocumentQuery(GetKey(args, K_target_year).s, <<>>, <<>>, store)

\* query_salary_allowance: [how, text]; data is what load_data() does, "ok" or
\* "raise".  The amounts computed by calculate_allowance are written as runs.
query_salary_allowance(args, data) ==
    IF data = "raise"
    THEN [how |-> "raised", text |-> <<"unable to open database file">>]
    ELSE [how |-> "value",
          text |-> <<"Based on a monthly salary of $">>
                   \o (IF HasKey(args, K_base_salary)
                       THEN GetKey(args, K_base_salary).s ELSE <<"<monthly_base>">>)
                   \o <<", working ">> \o GetKey(args, K_days_overseas).s
                   \o <<" overseas days and ">> \o GetKey(args, K_days_overtime).s
                   \o <<" overtime days yields a total allowance of $",
                        "<total_earned>", " (Allowance: $", "<allowance_amount>",
                        ", Overtime: $", "<overtime_amount>", ").">>]

\* natural_language_summary: the text returned; summ = [kind, text] is what the
\* model does on the second pass (kinds as in call_local_llm)
natural_language_summary(user_query, raw_result_json, summ) ==
    CASE summ.kind = "unloaded" -> <<"Error: Cannot generate summary, LLM not loaded.">>
      [] summ.kind = "raise" -> <<"Error generating conversational summary: ">> \o summ.text
      [] summ.kind = "badshape" ->
            <<"Error generating conversational summary: ">> \o <<"'choices'">>
      [] summ.kind = "text" -> Strip(summ.text)

----------------------------------------------------------------------------
(* The argument schemas (pydantic BaseModel, default configuration: lax    *)
(* coercion, unknown fields ignored).  A field is [name, type, required,   *)
(* ranged]; ranged stands for ge=1, le=12.                                 *)

Field(name, type, required, ranged) ==
    [name |-> name, type |-> type, required |-> required, ranged |-> ranged]

SalaryAllowanceArgs ==
    << Field(K_days_overseas, "int", TRUE, FALSE),
       Field(K_days_overtime, "int", TRUE, FALSE),
       Field(K_base_salary, "float", FALSE, FALSE) >>
DocumentExpiryArgs ==
    << Field(K_target_year, "int", TRUE, FALSE),
       Field(K_target_month, "int", FALSE, TRUE) >>
SQLQueryArgs == << Field(K_query, "str", TRUE, FALSE) >>
ConversationArgs == << Field(K_response, "str", TRUE, FALSE) >>

\* ALLOWED_TOOLS[name]["schema"]
SchemaOf(function_name) ==
    CASE function_name = N_respond_conversationally -> ConversationArgs
      [] function_name = N_query_salary_allowance -> SalaryAllowanceArgs
      [] function_name = N_query_document_expiry -> DocumentExpiryArgs
      [] function_name = N_execute_sql_query -> SQLQueryArgs

IsIntText(s) ==
    LET d == IF s # <<>> /\ s[1] = "-" THEN Tail(s) ELSE s
    IN  d # <<>> /\ \A i \in 1..Len(d) : d[i] \in Digits

\* digits "." zeros: a float with no fractional part
IsWholeFloatText(s) ==
    \E i \in 2..(Len(s) - 1) :
        /\ s[i] = "."
        /\ IsIntText(SubSeq(s, 1, i - 1))
        /\ \A j \in (i + 1)..Len(s) : s[j] = "0"

IsFloatText(s) ==
    \/ IsIntText(s)
    \/ \E i \in 2..(Len(s) - 1) :
          /\ s[i] = "."
          /\ IsIntText(SubSeq(s, 1, i - 1))
          /\ \A j \in (i + 1)..Len(s) : s[j] \in Digits

IntPart(s) == IF IndexOf(s, ".") = 0 THEN s ELSE SubSeq(s, 1, IndexOf(s, ".") - 1)
IntTextValue(s) == IF s[1] = "-" THEN 0 - DigitsToNat(Tail(s)) ELSE DigitsToNat(s)

\* a field that fails with the error type e
Rejected(e) == [err |-> e, present |-> FALSE, val |-> JNull]

\* a field that is absent, or None where None is allowed
Absent == [err |-> "", present |-> FALSE, val |-> JNull]

\* a field whose value coerces to val; n is its integer value where the field is
\* ranged (ge=1, le=12)
InRange(val, n) ==
    IF n < 1 THEN Rejected("greater_than_equal")
    ELSE IF n > 12 THEN Rejected("less_than_equal")
    ELSE [err |-> "", present |-> TRUE, val |-> val]

Accepted(f, val) ==
    IF f.ranged THEN InRange(val, IntTextValue(val.s))
    ELSE [err |-> "", present |-> TRUE, val |-> val]

\* lax coercion of the value v to the field's type
Coerce(f, v) ==
    CASE f.type = "str" ->
            IF v.k = "str" THEN v ELSE Rejected("string_type")
      [] f.type = "int" ->
            IF v.k = "num"
            THEN IF IsIntText(v.s) THEN v
                 ELSE IF IsWholeFloatText(v.s) THEN JNum(IntPart(v.s))
                 ELSE Rejected("int_from_float")
            ELSE IF v.k = "str"
            THEN IF IsIntText(Strip(v.s)) THEN JNum(Strip(v.s))
                 ELSE Rejected("int_parsing")
            ELSE IF v.k \in {"true", "false"}
            THEN JNum(IF v.k = "true" THEN <<"1">> ELSE <<"0">>)
            ELSE Rejected("int_type")
      [] f.type = "float" ->
            IF v.k = "num" THEN v
            ELSE IF v.k = "str"
            THEN IF IsFloatText(Strip(v.s)) THEN JNum(Strip(v.s))
                 ELSE Rejected("float_parsing")
            ELSE IF v.k \in {"true", "false"}
            THEN JNum(IF v.k = "true" THEN <<"1", ".", "0">> ELSE <<"0", ".", "0">>)
            ELSE Rejected("float_type")

\* c is the coerced value, or the rejection
Coerced(f, c) == IF "err" \in DOMAIN c THEN c ELSE Accepted(f, c)

FieldValue(f, v) ==
    IF v.k = "null" /\ ~f.required THEN Absent ELSE Coerced(f, Coerce(f, v))

\* one field against the supplied arguments: [err, present, val]; err = "" when
\* the field validates, present when it has a value other than None
FieldResult(f, args) ==
    IF ~HasKey(args, f.name)
    THEN IF f.required THEN Rejected("missing") ELSE Absent
    ELSE FieldValue(f, GetKey(args, f.name))

RECURSIVE ErrorsText(_, _, _)
ErrorsText(schema, rs, i) ==
    IF i > Len(rs) THEN <<>>
    ELSE (IF rs[i].err = "" THEN <<>>
          ELSE <<"{'type': '", rs[i].err, "', 'loc': ('">> \o schema[i].name \o <<"',)}">>)
         \o ErrorsText(schema, rs, i + 1)

\* model_dump(exclude_none=True): the fields that have a value
Dumped(kept) == JObj([i \in 1..Len(kept) |-> [key |-> kept[i].key, val |-> kept[i].val]])

\* rs are the fields' results in the schema's order
Validation(schema, rs) ==
    [ok |-> \A i \in 1..Len(rs) : rs[i].err = "",
     args |-> Dumped(SelectSeq([i \in 1..Len(schema) |->
                                  [key |-> schema[i].name, val |-> rs[i].val,
                                   present |-> rs[i].present]],
                               LAMBDA x : x.present)),
     detail |-> <<"[">> \o ErrorsText(schema, rs, 1) \o <<"]">>]

\* schema(**function_args) and model_dump(exclude_none=True):
\* [ok, args, detail]; args the validated arguments, detail str(e.errors())
Validate(schema, function_args) ==
    Validation(schema, [i \in 1..Len(schema) |-> FieldResult(schema[i], function_args)])

----------------------------------------------------------------------------
(* parse_and_execute_tool *)

\* termcolor.colored(text, color): the text between the colour's escape
\* sequence and the reset sequence
Colored(text, color) == <<"ESC[", color, "m">> \o text \o <<"ESC[0m">>

Result(cat, color, text) == [cat |-> cat, color |-> color, text |-> text]

\* line 367
GenerationError(detail) ==
    Result("generation_error", "none", <<"Error from LLM generation: ">> \o detail)
\* line 384
Blocked(function_name) ==
    Result("unknown_tool", "none",
           <<"Error: Function '">> \o PyStr(function_name)
           \o <<"' is not a whitelisted tool. Execution is blocked.">>)
\* line 441
InvalidArguments(function_name, detail) ==
    Result("invalid_arguments", "none",
           <<"Error: AI provided invalid arguments for tool '">> \o function_name
           \o <<"'. Details: ">> \o detail)
\* line 472
InternalError(e) ==
    Result("internal_error", "red",
           Colored(<<"An unexpected internal error occurred during tool execution: ">>
                   \o e, "red"))

\* the texts of a round, each <<>> or <<text>>: the query after substitution, the
\* query execute_sql_query received, the summarizer's context, the tool's raw result
NoTexts == [resolved |-> <<>>, executed |-> <<>>, context |-> <<>>, raw_result |-> <<>>]

\* what a round that stops before any tool runs leaves behind
Stopped(res) ==
    [result |-> res, trace |-> <<>>, evals |-> <<>>, texts |-> NoTexts,
     commits |-> 0, leaked |-> 0]

\* a lookup that falls back to the conversational tool for an unregistered name
LookupToolOrDefault(function_name) ==
    IF function_name.k = "str" /\ function_name.s \in ALLOWED_TOOLS
    THEN function_name.s
    ELSE N_respond_conversationally

\* lines 383-386: the key of ALLOWED_TOOLS the name selects, <<>> when
\* `function_name not in ALLOWED_TOOLS`
LookupTool(function_name) ==
    IF function_name.k = "str" /\ function_name.s \in ALLOWED_TOOLS
    THEN function_name.s
    ELSE <<>>

\* function_args['query'] = raw_query
SetKey(obj, key, val) ==
    IF HasKey(obj, key)
    THEN JObj([i \in 1..Len(obj.m) |->
                 IF obj.m[i].key = key THEN [key |-> key, val |-> val] ELSE obj.m[i]])
    ELSE JObj(Append(obj.m, [key |-> key, val |-> val]))

\* an extraction that prefers `arguments` to `args`
ExtractArgsArgumentsFirst(response_json, function_name) ==
    IF HasKey(response_json, K_arguments) THEN GetKey(response_json, K_arguments)
    ELSE IF HasKey(response_json, K_args) THEN GetKey(response_json, K_args)
    ELSE IF function_name = JStr(N_respond_conversationally)
            /\ HasKey(response_json, K_response)
    THEN Dict(<< <<K_response, GetKey(response_json, K_response)>> >>)
    ELSE JObj(<<>>)

\* lines 371-381
ExtractArgs(response_json, function_name) ==
    IF HasKey(response_json, K_args) THEN GetKey(response_json, K_args)
    ELSE IF HasKey(response_json, K_arguments) THEN GetKey(response_json, K_arguments)
    ELSE IF function_name = JStr(N_respond_conversationally)
            /\ HasKey(response_json, K_response)
    THEN Dict(<< <<K_response, GetKey(response_json, K_response)>> >>)
    ELSE JObj(<<>>)

\* a colouring that goes by the summarizer's text instead of the status
SummariseSqlByText(r, summary_result, raw_json_data) ==
    IF StartsWith(summary_result, <<"Error: Cannot generate summary, LLM not loaded.">>)
       \/ StartsWith(summary_result, <<"Error generating conversational summary: ">>)
    THEN Result("summary", "red",
                Colored(<<"AI Assistant: ">> \o summary_result, "red"))
    ELSE Result("summary", "green",
                Colored(<<"AI Assistant: ">> \o summary_result, "green"))

\* lines 448-462: the SQL tool's raw result r is summarised and coloured by the
\* status json.loads(raw_result) finds
SummariseSql(r, summary_result, raw_json_data) ==
    IF raw_json_data.ok /\ raw_json_data.v.k # "obj"
    THEN InternalError(<<"object has no attribute 'get'">>)
    ELSE IF raw_json_data.ok
            /\ HasKey(raw_json_data.v, K_status)
            /\ GetKey(raw_json_data.v, K_status) = JStr(T_error)
    THEN Result("summary", "red",
                Colored(<<"AI Assistant: ">> \o summary_result, "red"))
    ELSE Result("summary", "green",
                Colored(<<"AI Assistant: ">> \o summary_result, "green"))

\* lines 444-462 for execute_sql_query, r what the tool returned
RanSql(query, r, texts, evals, e) ==
    [result |-> SummariseSql(r, natural_language_summary(texts.context[1], r.text,
                                                         e.summ),
                             json_loads(r.text)),
     trace |-> <<"tool:execute_sql_query">>
               \o (IF r.calls = 1 THEN <<"store">> ELSE <<>>)
               \o <<"summarizer">>
               \o (IF e.summ.kind = "unloaded" THEN <<>> ELSE <<"llm">>),
     evals |-> evals,
     texts |-> [texts EXCEPT !.executed = <<query>>, !.raw_result = <<r.text>>],
     commits |-> r.commits,
     leaked |-> r.leaked]

\* lines 444-445 and 469 for a tool that returns text, r what the tool did
RanText(events, r, texts, evals, commits, leaked) ==
    [result |-> IF r.how = "raised" THEN InternalError(r.text)
                ELSE Result("tool_result", "none", <<"AI Query Result: ">> \o r.text),
     trace |-> events,
     evals |-> evals,
     texts |-> texts,
     commits |-> commits,
     leaked |-> leaked]

\* lines 444-445 for query_document_expiry
RanDocument(r, texts, evals) ==
    RanText(<<"tool:query_document_expiry", "store">>, r, texts, evals,
            r.commits, r.leaked)

\* lines 443-469 for validated arguments: the tool runs and its result is wrapped
RunTool(function_name, args, texts, evals, e) ==
    CASE function_name = N_respond_conversationally ->
            [result |-> Result("conversation", "white",
                Colored(<<"AI Assistant: ">>
                        \o respond_conversationally(GetKey(args, K_response).s),
                        "white")),
             trace |-> <<"tool:respond_conversationally">>,
             evals |-> evals, texts |-> texts, commits |-> 0, leaked |-> 0]
      [] function_name = N_query_salary_allowance ->
            RanText(<<"tool:query_salary_allowance", "load_data">>,
                    query_salary_allowance(args, e.data), texts, evals, 0, 0)
      [] function_name = N_query_document_expiry ->
            RanDocument(query_document_expiry(args, e.store), texts, evals)
      [] function_name = N_execute_sql_query ->
            RanSql(GetKey(args, K_query).s,
                   execute_sql_query(GetKey(args, K_query).s, e.store),
                   texts, evals, e)

\* lines 436-441 and what follows: validated is what the schema made of the
\* arguments
Validated(tool, validated, texts, evals, e) ==
    IF ~validated.ok
    THEN [Stopped(InvalidArguments(tool, validated.detail))
            EXCEPT !.evals = evals, !.texts = texts]
    ELSE RunTool(tool, validated.args, texts, evals, e)

\* line 437: schema(**function_args) needs a mapping
ValidateAndRun(tool, final_args, texts, evals, e) ==
    IF final_args.k # "obj"
    THEN [Stopped(InternalError(<<"argument after ** must be a mapping">>))
            EXCEPT !.evals = evals, !.texts = texts]
    ELSE Validated(tool, Validate(SchemaOf(tool), final_args), texts, evals, e)

\* a write-back that leaves the default context in place
SqlResolvedDefaultContext(tool, function_args, sub, e) ==
    ValidateAndRun(tool, SetKey(function_args, K_query, JStr(sub.text)),
                   [NoTexts EXCEPT !.resolved = <<sub.text>>,
                                   !.context = <<<<"Querying ">> \o tool \o <<".">>>>],
                   sub.evals, e)

\* lines 429-432: the resolved query is written back and becomes the context
SqlResolved(tool, function_args, sub, e) ==
    ValidateAndRun(tool, SetKey(function_args, K_query, JStr(sub.text)),
                   [NoTexts EXCEPT !.resolved = <<sub.text>>,
                                   !.context = <<<<"SQL Query: ">> \o sub.text>>],
                   sub.evals, e)

\* lines 426-427: re.sub needs a string
SqlResolve(tool, function_args, raw_query, e) ==
    IF raw_query.k # "str"
    THEN Stopped(InternalError(<<"expected string or bytes-like object">>))
    ELSE SqlResolved(tool, function_args,
                     resolve_placeholders(raw_query.s, e.year, e.month), e)

\* line 392: function_args.get('query', '')
SqlBranch(tool, function_args, e) ==
    IF function_args.k # "obj"
    THEN Stopped(InternalError(<<"object has no attribute 'get'">>))
    ELSE SqlResolve(tool, function_args,
                    IF HasKey(function_args, K_query)
                    THEN GetKey(function_args, K_query) ELSE JStr(<<>>),
                    e)

\* lines 383-434: the whitelist, then the branch on the tool
DispatchTool(tool, function_name, function_args, e) ==
    IF tool = <<>>
    THEN Stopped(Blocked(function_name))
    ELSE IF tool = N_execute_sql_query
    THEN SqlBranch(tool, function_args, e)
    ELSE ValidateAndRun(tool, function_args,
                        [NoTexts EXCEPT !.context =
                            <<<<"Querying ">> \o tool \o <<".">>>>],
                        <<>>, e)

\* lines 369-386 for the function name the proposal gives
DispatchCall(response_json, function_name, e) ==
    IF function_name.k \in {"arr", "obj"}
    THEN Stopped(InternalError(<<"unhashable type">>))
    ELSE DispatchTool(LookupTool(function_name), function_name,
                      ExtractArgs(response_json, function_name), e)

\* a dispatcher that looks at the error key only when no function is named
DispatchJsonNamed(response_json, e) ==
    IF response_json.k = "obj" /\ HasKey(response_json, K_error)
       /\ ~HasKey(response_json, K_function)
    THEN Stopped(GenerationError(PyStr(GetKey(response_json, K_error))))
    ELSE DispatchCall(response_json,
                      IF HasKey(response_json, K_function)
                      THEN GetKey(response_json, K_function) ELSE JNull,
                      e)

\* lines 366-369 for the decoded response
DispatchJson(response_json, e) ==
    IF response_json.k # "obj"
    THEN Stopped(InternalError(
            IF response_json.k \in {"arr", "str"}
            THEN <<"object has no attribute 'get', or indices must be integers">>
            ELSE <<"argument is not iterable">>))
    ELSE IF HasKey(response_json, K_error)
    THEN Stopped(GenerationError(PyStr(GetKey(response_json, K_error))))
    ELSE DispatchCall(response_json,
                      IF HasKey(response_json, K_function)
                      THEN GetKey(response_json, K_function) ELSE JNull,
                      e)

\* line 364 and the handler of lines 471-472 for what json.loads gives
DispatchParsed(parsed, e) ==
    IF ~parsed.ok
    THEN Stopped(InternalError(<<"Expecting value">>))
    ELSE DispatchJson(parsed.v, e)

\* parse_and_execute_tool(llm_response_text) in the environment e =
\* [year, month, store, summ, data]: the date of datetime.date.today(), what the
\* store does on a statement, what the model does on the second pass, and what
\* load_data() does.  The answer is [result, trace, evals, texts, commits, leaked].
parse_and_execute_tool(llm_response_text, e) ==
    DispatchParsed(json_loads(Strip(llm_response_text)), e)

----------------------------------------------------------------------------
(* What the environment may do: the model's completions, the store's       *)
(* answers, the date.                                                      *)


Q_select == <<"S","E","L","E","C","T"," ","1">>
Q_select_lower == <<" ","s","e","l","e","c","t"," ","{","{","C","U","R","R","E","N","T","_","Y","E","A","R","-","1","}","}","-","{","{","C","U","R","R","E","N","T","_","M","O","N","T","H","+","1","}","}">>
Q_delete == <<"D","E","L","E","T","E"," ","F","R","O","M"," ","t">>
Q_token_then_select == <<"{","{","C","U","R","R","E","N","T","_","M","O","N","T","H","-","6","}","}"," ","S","E","L","E","C","T">>
Q_leading_zero == <<"S","E","L","E","C","T"," ","{","{","C","U","R","R","E","N","T","_","Y","E","A","R","+","0","1","}","}">>

Q_sum == <<"S","E","L","E","C","T"," ","S","U","M","(","a","m","o","u","n","t",")">>
Q_sum_alias == <<"S","E","L","E","C","T"," ","S","U","M","(","a","m","o","u","n","t",")"," ","A","S"," ","t","o","t","a","l">>

Q_zero_summary == <<"S","E","L","E","C","T"," ","0"," ","A","S"," ","s","u","m","m","a","r","y">>

QueryTexts == {Q_select, Q_select_lower, Q_delete, Q_token_then_select,
               Q_leading_zero, Q_sum, Q_sum_alias, Q_zero_summary, <<>>}

T_hi == <<"h","i">>
T_padded == <<" ","i","t"," ","i","s"," ","{","{","C","U","R","R","E","N","T","_","Y","E","A","R","}","}"," ">>
T_quoted == <<"a", QUOTE, "b", BSL, "}">>
T_unknown_tool == <<"d","r","o","p","_","t","a","b","l","e">>

\* values the model may give under "args" or "arguments"
ArgValues ==
    { Dict(<< <<K_response, JStr(T_hi)>> >>),
      Dict(<< <<K_response, JNum(<<"5">>)>> >>),
      Dict(<<>>),
      Dict(<< <<K_response, JStr(T_hi)>>, <<<<"e","x","t","r","a">>, JNum(<<"1">>)>> >>),
      Dict(<< <<K_query, JNum(<<"5">>)>> >>),
      Dict(<< <<K_query, JNull>> >>),
      Dict(<< <<K_days_overseas, JNum(<<"3">>)>>, <<K_days_overtime, JNum(<<"1">>)>> >>),
      Dict(<< <<K_days_overseas, JNum(<<"3">>)>> >>),
      Dict(<< <<K_days_overseas, JStr(<<"x">>)>>, <<K_days_overtime, JNum(<<"1">>)>> >>),
      Dict(<< <<K_days_overseas, JStr(<<"3">>)>>,
              <<K_days_overtime, JNum(<<"1", ".", "0">>)>>,
              <<K_base_salary, JNum(<<"1", "0", "0", ".", "5">>)>> >>),
      Dict(<< <<K_target_year, JNum(<<"2", "0", "2", "6">>)>> >>),
      Dict(<< <<K_target_year, JNum(<<"2", "0", "2", "6">>)>>,
              <<K_target_month, JNum(<<"1", "3">>)>> >>),
      Dict(<< <<K_target_month, JNum(<<"5">>)>> >>),
      Dict(<< <<K_target_year, JNum(<<"2", "0", "2", "6">>)>>,
              <<K_target_month, JNum(<<"3">>)>> >>),
      JArr(<<>>), JNull, JStr(T_hi) }
    \cup { Dict(<< <<K_query, JStr(q)>> >>) : q \in QueryTexts }

\* values the model may give under "function"
FunctionValues ==
    { JStr(N_respond_conversationally), JStr(N_query_salary_allowance),
      JStr(N_query_document_expiry), JStr(N_execute_sql_query),
      JStr(T_unknown_tool), JNull, JNum(<<"7">>), JArr(<<>>) }

FunctionPairs == {<<>>} \cup { << <<K_function, f>> >> : f \in FunctionValues }
ArgPairs ==
    {<<>>} \cup { << <<k, a>> >> : k \in {K_args, K_arguments}, a \in ArgValues }

ConversationCall == << <<K_function, JStr(N_respond_conversationally)>> >>
SqlCall == << <<K_function, JStr(N_execute_sql_query)>> >>

\* the proposals the model may emit
Proposals ==
    { Dict(f \o a) : f \in FunctionPairs, a \in ArgPairs }
    \cup { Dict(f \o << <<K_response, r>> >>) :
             f \in {<<>>, ConversationCall, SqlCall},
             r \in {JStr(T_hi), JStr(T_padded), JStr(T_quoted), JNum(<<"5">>)} }
    \cup { Dict(ConversationCall
                \o << <<K_arguments, Dict(<< <<K_response, JStr(<<"b">>)>> >>)>>,
                      <<K_args, Dict(<< <<K_response, JStr(<<"a">>)>> >>)>>,
                      <<K_response, JStr(<<"c">>)>> >>),
           Dict(ConversationCall
                \o << <<K_response, JStr(<<"c">>)>>,
                      <<K_arguments, Dict(<< <<K_response, JStr(<<"b">>)>> >>)>> >>),
           Dict(<< <<K_error, JStr(<<"x">>)>> >>),
           Dict(SqlCall \o << <<K_query, JStr(Q_select)>> >>),
           Dict(<< <<K_function, JStr(N_query_salary_allowance)>>,
                   <<K_days_overseas, JNum(<<"3">>)>>,
                   <<K_days_overtime, JNum(<<"1">>)>> >>),
           Dict(ConversationCall
                \o << <<K_args, Dict(<< <<K_response, JStr(T_hi)>> >>)>>,
                      <<K_error, JStr(<<"x">>)>> >>) }

\* completions that are not one clean object
OtherCompletions ==
    { <<>>,
      <<"I"," ","c","a","n","n","o","t"," ","h","e","l","p">>,
      <<"{">>,
      <<"{", QUOTE, "a", QUOTE>>,
      <<"n", "o", NL>>,
      <<"a", BSL>>,
      <<QUOTE, "x", QUOTE>>,
      <<"S","u","r","e","!"," ">> \o json_dumps(Dict(ConversationCall
                  \o << <<K_args, Dict(<< <<K_response, JStr(T_hi)>> >>)>> >>))
              \o <<" ","t","h","a","n","k","s">>,
      <<NL, " ">> \o json_dumps(Dict(SqlCall
                  \o << <<K_args, Dict(<< <<K_query, JStr(Q_select)>> >>)>> >>))
              \o <<" ", "{", "}">>,
      <<"{", "}", "}">>,
      <<"[", "1", "]">> }

\* what the model may do on the first pass
LlmBehaviours ==
    { [kind |-> "text", text |-> json_dumps(p)] : p \in Proposals }
    \cup { [kind |-> "text", text |-> t] : t \in OtherCompletions }
    \cup { [kind |-> "raise", text |-> <<"t","i","m","e","o","u","t">>],
           [kind |-> "raise", text |-> <<"b", "a", "d", " ", QUOTE, "x", QUOTE>>],
           [kind |-> "badshape", text |-> <<>>],
           [kind |-> "unloaded", text |-> <<>>] }

\* what the model may do on the second pass
SummaryBehaviours ==
    { [kind |-> "text", text |-> <<" ","Y","o","u"," ","s","p","e","n","t"," ","$","4","2","."," ">>],
      [kind |-> "raise", text |-> <<"t","i","m","e","o","u","t">>],
      [kind |-> "badshape", text |-> <<>>],
      [kind |-> "unloaded", text |-> <<>>] }

Rows(columns, rows) == [kind |-> "rows", columns |-> columns, rows |-> rows, msg |-> <<>>]
Raises(kind, msg) == [kind |-> kind, columns |-> <<>>, rows |-> <<>>, msg |-> msg]
NoStore == [kind |-> "unused", columns |-> <<>>, rows |-> <<>>, msg |-> <<>>]
NoSummary == [kind |-> "unused", text |-> <<>>]

\* what the store may do on a statement of the SQL tool
SqlStoreBehaviours ==
    { Rows(<<<<"t","o","t","a","l">>>>, << <<JNum(<<"4", "2">>)>> >>),
      Rows(<<<<"n","a","m","e">>, <<"a","m","o","u","n","t">>>>, << <<JStr(<<"r","e","n","t">>), JNum(<<"9">>)>>, <<JNull, JNum(<<"0">>)>> >>),
      Rows(<<<<"n","a","m","e">>>>, <<>>),
      Rows(<<<<"S","U","M","(","a","m","o","u","n","t",")">>>>, << <<JNull>> >>),
      Rows(<<<<"t","o","t","a","l">>>>, << <<JNull>> >>),
      Rows(<<<<"s","u","m","m","a","r","y">>>>, << <<JNum(<<"0">>)>> >>),
      Raises("sqlite_error", <<"n","o"," ","s","u","c","h"," ","c","o","l","u","m","n",":"," ","x">>),
      Raises("other_error", <<"'utf-8' codec can't encode character: surrogates not allowed">>) }

\* what the store may do on the statement of query_document_expiry
DocumentStoreBehaviours ==
    { Rows(<<<<"n","a","m","e">>, <<"e","x","p","i","r","y","_","d","a","t","e">>>>, << <<JStr(<<"p","a","s","s","p","o","r","t">>), JStr(<<"2","0","2","6","-","0","3","-","0","1">>)>> >>),
      Rows(<<<<"n","a","m","e">>, <<"e","x","p","i","r","y","_","d","a","t","e">>>>, <<>>),
      Raises("sqlite_error", <<"n","o"," ","s","u","c","h"," ","t","a","b","l","e",":"," ","d","o","c","u","m","e","n","t","s">>),
      Raises("other_error", <<"'utf-8' codec can't encode character: surrogates not allowed">>) }

\* the dates datetime.date.today() may give
Dates == { [year |-> 2025, month |-> 6], [year |-> 1999, month |-> 12] }

Env(date, store, summ, data) ==
    [year |-> date.year, month |-> date.month, store |-> store, summ |-> summ,
     data |-> data]

\* a round consults the date, the store and the second pass only on some paths;
\* the parts it does not consult are left unused
QuietEnv == Env([year |-> 2025, month |-> 6], NoStore, NoSummary, "unused")

\* the environments that differ for a round whose probe run was probe: those of
\* the tool it runs
EnvsOf(probe) ==
    IF probe.texts.resolved # <<>>
    THEN { Env(d, st, su, "unused") :
             d \in Dates, st \in SqlStoreBehaviours, su \in SummaryBehaviours }
    ELSE IF probe.trace # <<>> /\ probe.trace[1] = "tool:query_document_expiry"
    THEN { Env([year |-> 2025, month |-> 6], st, NoSummary, "unused") :
             st \in DocumentStoreBehaviours }
    ELSE IF probe.trace # <<>> /\ probe.trace[1] = "tool:query_salary_allowance"
    THEN { Env([year |-> 2025, month |-> 6], NoStore, NoSummary, data) :
             data \in {"ok", "raise"} }
    ELSE {QuietEnv}

ProbeEnv ==
    Env([year |-> 2025, month |-> 6], Rows(<<>>, <<>>),
        [kind |-> "unloaded", text |-> <<>>], "ok")

EnvsFor(llm_response_text) ==
    EnvsOf(parse_and_execute_tool(llm_response_text, ProbeEnv))

----------------------------------------------------------------------------
(* The loop of ai_query_interface *)

\* dashboard.py lines 33-34
MAX_HISTORY_TURNS == 2

\* what the user may type at the prompt
T_Greeting == <<"H","i">>
UserInputs ==
    { T_Greeting, <<" ","T","o","t","a","l","?">>, <<"b">>, <<" ","B","a","c","k"," ">> }

\* dashboard.py lines 137-139: user_input.upper() in ['B', 'BACK']
IsBack(user_input) == Upper(Strip(user_input)) \in {<<"B">>, <<"B","A","C","K">>}

\* dashboard.py lines 137 and 145: input(...).strip(), then .lower()
LowerQuery(user_input) == Lower(Strip(user_input))

Turn(role, content) == [role |-> role, content |-> content]

\* the answer appended before the question
AppendAnswerFirst(h, query, res) ==
    h \o <<Turn("assistant", res), Turn("user", query)>>

\* dashboard.py lines 158-159
AppendTurns(h, query, res) ==
    h \o <<Turn("user", query), Turn("assistant", res)>>

\* a trim that keeps the oldest entries
TrimOldestKept(h) ==
    IF Len(h) > MAX_HISTORY_TURNS * 2 THEN SubSeq(h, 1, MAX_HISTORY_TURNS * 2) ELSE h

\* dashboard.py lines 162-163: CONVERSATION_HISTORY[-(MAX_HISTORY_TURNS * 2):]
TrimHistory(h) ==
    IF Len(h) > MAX_HISTORY_TURNS * 2
    THEN SubSeq(h, Len(h) - MAX_HISTORY_TURNS * 2 + 1, Len(h))
    ELSE h

Init ==
    /\ pc = "idle"
    /\ llmOut = [kind |-> "unused", text |-> <<>>]
    /\ llmResponse = [how |-> "none", text |-> <<>>]
    /\ result = Result("", "", <<>>)
    /\ trace = <<>>
    /\ evalArgs = <<>>
    /\ toolQuery = NoTexts
    /\ env = QuietEnv
    /\ dbCommits = 0
    /\ connOpen = 0
    /\ userQuery = <<>>
    /\ history = <<>>
    /\ appended = <<>>

\* dashboard.py lines 148-152: r is what call_local_llm did for the behaviour out
Called(out, r) ==
    /\ llmOut' = out
    /\ llmResponse' = r
    /\ trace' = IF out.kind = "unloaded" THEN <<>> ELSE <<"llm">>
    /\ pc' = CASE r.how = "value" -> "called"
               [] r.how = "none" -> "skipped"
               [] r.how = "raised" -> "crashed"

\* dashboard.py lines 137-152: the user types one of inputs that is not Back,
\* and call_local_llm(user_query, CONVERSATION_HISTORY) runs, the model
\* behaving as one of outs
AskOn(inputs, outs) ==
    /\ pc = "idle"
    /\ \E user_input \in inputs :
          /\ ~IsBack(user_input)
          /\ userQuery' = <<LowerQuery(user_input)>>
    /\ \E out \in outs : Called(out, call_local_llm(out))
    /\ UNCHANGED <<result, evalArgs, toolQuery, env, dbCommits, connOpen,
                   history, appended>>

\* a round on one fixed question
CallOn(outs) == AskOn({T_Greeting}, outs)

\* dashboard.py lines 155-163: r is what parse_and_execute_tool did in e; the
\* question and the result are appended to the history, which is then trimmed
Executed(e, r) ==
    /\ result' = r.result
    /\ trace' = trace \o r.trace
    /\ evalArgs' = r.evals
    /\ toolQuery' = r.texts
    /\ env' = e
    /\ dbCommits' = r.commits
    /\ connOpen' = r.leaked
    /\ history' = TrimHistory(AppendTurns(history, userQuery[1], r.result.text))
    /\ appended' = AppendTurns(appended, userQuery[1], r.result.text)

\* dashboard.py line 155: parse_and_execute_tool(llm_response_text), in one of
\* the environments envs
ExecuteOn(envs) ==
    /\ pc = "called"
    /\ \E e \in envs : Executed(e, parse_and_execute_tool(llmResponse.text, e))
    /\ pc' = "done"
    /\ UNCHANGED <<llmOut, llmResponse, userQuery>>

CallLocalLlm == CallOn(LlmBehaviours)

ParseAndExecuteTool == ExecuteOn(EnvsFor(llmResponse.text))

\* what a round leaves behind is gone at the next prompt
RoundCleared ==
    /\ pc' = "idle"
    /\ llmOut' = [kind |-> "unused", text |-> <<>>]
    /\ llmResponse' = [how |-> "none", text |-> <<>>]
    /\ result' = Result("", "", <<>>)
    /\ trace' = <<>>
    /\ evalArgs' = <<>>
    /\ toolQuery' = NoTexts
    /\ env' = QuietEnv
    /\ dbCommits' = 0
    /\ connOpen' = 0
    /\ userQuery' = <<>>

\* a Back that leaves the history as it is
KeepHistory(h) == h

\* dashboard.py line 142: CONVERSATION_HISTORY.clear()
ClearHistory(h) == <<>>

\* dashboard.py lines 139-143: the user types Back at the prompt; the history
\* is cleared and ai_query_interface returns to the main menu.  What the last
\* round left behind is still in place until the assistant is entered again.
Back ==
    /\ pc \in {"idle", "done", "skipped"}
    /\ \E user_input \in UserInputs : IsBack(user_input)
    /\ pc' = "left"
    /\ history' = ClearHistory(history)
    /\ appended' = <<>>
    /\ UNCHANGED <<llmOut, llmResponse, result, trace, evalArgs, toolQuery,
                   env, dbCommits, connOpen, userQuery>>

\* dashboard.py lines 112-137: the main menu calls ai_query_interface again,
\* which comes to its first prompt with CONVERSATION_HISTORY as it was left
Enter ==
    /\ pc = "left"
    /\ RoundCleared
    /\ UNCHANGED <<history, appended>>

Next == CallLocalLlm \/ ParseAndExecuteTool \/ Back \/ Enter

Spec == Init /\ [][Next]_vars

----------------------------------------------------------------------------
(* Rounds on every short completion: the extraction of call_local_llm on   *)
(* all texts over RawAlphabet of at most MaxRawLen characters, and on some *)
(* longer ones.                                                            *)

MaxRawLen == 4

RawAlphabet == {"{", "}", QUOTE, "a", " ", BSL}

T_spec_example_json ==
    json_dumps(Dict(<< <<K_function, JStr(<<"x">>)>>,
                       <<K_args, Dict(<< <<<<"a">>, JNum(<<"1">>)>> >>)>> >>))

T_spec_example ==
    <<"S","u","r","e","!"," ">> \o T_spec_example_json \o <<" ","t","h","a","n","k","s">>

RawTexts ==
    UNION { [1..n -> RawAlphabet] : n \in 0..MaxRawLen }
    \cup { T_spec_example,
           T_spec_example_json \o T_spec_example_json,
           <<"{", QUOTE, "a", QUOTE, ":", " ", QUOTE, "}", QUOTE, "}">>,
           <<"{", QUOTE, "a", QUOTE, ":", QUOTE, "{", "}", QUOTE, "}", " ", "o", "k">>,
           <<"{", "{", "}", "}", " ", "{", "}">>,
           <<"a", " ", "{", QUOTE, "a", QUOTE, ":", "1", "}", "}">> }

CallRawText == CallOn({ [kind |-> "text", text |-> t] : t \in RawTexts })

ExtractNext == CallRawText \/ ParseAndExecuteTool \/ Back \/ Enter

ExtractSpec == Init /\ [][ExtractNext]_vars

----------------------------------------------------------------------------
(* Rounds of the SQL tool on every query made of at most MaxPieces pieces  *)
(* of placeholder tokens.                                                  *)

MaxPieces == 3

QueryPieces ==
    << YearHead, MonthHead, TokenTail, <<"+", "1">>, <<"-", "1">>, <<"+", "0", "1">>,
       <<"-", "6">>, <<"+">>, <<"x">> >>

RECURSIVE JoinPieces(_)
JoinPieces(ps) ==
    IF ps = <<>> THEN <<>> ELSE QueryPieces[Head(ps)] \o JoinPieces(Tail(ps))

PieceQueries ==
    { JoinPieces(ps) : ps \in UNION { [1..n -> 1..Len(QueryPieces)] : n \in 0..MaxPieces } }

\* queries with one token standing where the offset of another would be
NestedQueries ==
    { YearHead \o <<"+">> \o MonthHead \o TokenTail \o TokenTail,
      YearHead \o <<"+">> \o YearHead \o TokenTail \o TokenTail,
      MonthHead \o <<"+">> \o YearHead \o TokenTail \o TokenTail,
      <<"S","E","L","E","C","T"," ">> \o YearHead \o <<"-","1">> \o MonthHead
          \o <<"+","1">> \o TokenTail \o TokenTail }

SqlProposal(q) == json_dumps(Dict(SqlCall \o << <<K_args, Dict(<< <<K_query, JStr(q)>> >>)>> >>))

CallPieceQuery ==
    CallOn({ [kind |-> "text", text |-> SqlProposal(q)] : q \in PieceQueries \cup NestedQueries })

\* the dates of Dates and one in January
ResolveDates == Dates \cup { [year |-> 2026, month |-> 1] }

ResolveEnvs ==
    { Env(d, Rows(<<<<"t","o","t","a","l">>>>, << <<JNum(<<"4", "2">>)>> >>),
          [kind |-> "text", text |-> <<"o", "k">>], "unused") : d \in ResolveDates }

ExecutePieceQuery == ExecuteOn(ResolveEnvs)

ResolveNext == CallPieceQuery \/ ExecutePieceQuery \/ Back \/ Enter

ResolveSpec == Init /\ [][ResolveNext]_vars

----------------------------------------------------------------------------
(* Several rounds in a row on one history: at most MaxRounds rounds append *)
(* to the history before the user leaves with Back.                        *)

MaxRounds == 3

HistoryBehaviours ==
    { [kind |-> "text", text |-> json_dumps(Dict(ConversationCall
                  \o << <<K_response, JStr(<<"o","k">>)>> >>))],
      [kind |-> "raise", text |-> <<"t","i","m","e","o","u","t">>],
      [kind |-> "unloaded", text |-> <<>>] }

AskAndCall == AskOn(UserInputs, HistoryBehaviours)

\* dashboard.py line 127: the loop goes on to the next prompt, the history kept
NextRound ==
    /\ pc \in {"done", "skipped"}
    /\ Len(appended) < 2 * MaxRounds
    /\ RoundCleared
    /\ UNCHANGED <<history, appended>>

HistoryNext == AskAndCall \/ ParseAndExecuteTool \/ NextRound \/ Back \/ Enter

HistorySpec == Init /\ [][HistoryNext]_vars

----------------------------------------------------------------------------
(* Properties of one round.  They are stated on what a round leaves in the *)
(* variables: the model's behaviour llmOut, the text llmResponse handed on, *)
(* the result, the trace of calls made, and the texts of the SQL branch.   *)

\* the proposal the dispatcher was handed, decoded
Proposal == json_loads(Strip(llmResponse.text))

IsProposal == llmResponse.how = "value" /\ Proposal.ok /\ Proposal.v.k = "obj"

\* the value under "function", None when the key is missing
ProposedFunction ==
    IF HasKey(Proposal.v, K_function) THEN GetKey(Proposal.v, K_function) ELSE JNull

NamesRegisteredTool == ProposedFunction.k = "str" /\ ProposedFunction.s \in ALLOWED_TOOLS

\* the calls of a round that run a registered tool function or reach what a tool uses
ToolEvents ==
    {"tool:respond_conversationally", "tool:query_salary_allowance",
     "tool:query_document_expiry", "tool:execute_sql_query",
     "store", "load_data", "summarizer"}

NoToolInvoked == \A i \in 1..Len(trace) : trace[i] \notin ToolEvents

\* the result categories that are error strings
ErrorResults == {"generation_error", "unknown_tool", "invalid_arguments", "internal_error"}

\* C1: a proposal whose function value is not one of the four registered names
\* (a missing name included) ends in an error string, and no registered tool
\* function is invoked, whatever its arguments are.
C1_UnregisteredNameBlocked ==
    (pc = "done" /\ IsProposal /\ ~NamesRegisteredTool)
        => (result.cat \in ErrorResults /\ NoToolInvoked)

\* a round that was handed an unregistered name together with arguments
C1_Witness ==
    /\ pc = "done"
    /\ IsProposal
    /\ ProposedFunction = JStr(T_unknown_tool)
    /\ HasKey(Proposal.v, K_args)
    /\ result.cat = "unknown_tool"

\* the arguments the dispatcher takes from the proposal (lines 371-381)
ProposedArgs == ExtractArgs(Proposal.v, ProposedFunction)

\* what the tool's schema makes of the proposed arguments
ProposedValidation == Validate(SchemaOf(ProposedFunction.s), ProposedArgs)

\* C2: a proposal naming a registered tool whose arguments miss a required field
\* or carry a mistyped one ends with the invalid-arguments result carrying the
\* validation detail, and the tool's executor is not invoked.
C2_InvalidArgumentsRejected ==
    (/\ pc = "done"
     /\ IsProposal
     /\ ~HasKey(Proposal.v, K_error)
     /\ NamesRegisteredTool
     /\ ProposedArgs.k = "obj"
     /\ ~ProposedValidation.ok)
        => (/\ result.cat = "invalid_arguments"
            /\ Contains(result.text, ProposedValidation.detail)
            /\ NoToolInvoked)

\* the number of calls of the model in the round
ModelCalls == Cardinality({i \in 1..Len(trace) : trace[i] = "llm"})

\* the proposal is exactly {"function": "respond_conversationally", "response": text}
IsFlatConversation ==
    /\ IsProposal
    /\ Len(Proposal.v.m) = 2
    /\ Proposal.v.m[1] = [key |-> K_function, val |-> JStr(N_respond_conversationally)]
    /\ Proposal.v.m[2].key = K_response
    /\ Proposal.v.m[2].val.k = "str"

\* C3: for the flat conversational proposal with a string text, the result
\* contains the text verbatim, and the round makes no store access and no second
\* call of the model.
C3_FlatConversationVerbatim ==
    (pc = "done" /\ IsFlatConversation)
        => (/\ result.cat = "conversation"
            /\ Contains(result.text, Proposal.v.m[2].val.s)
            /\ \A i \in 1..Len(trace) : trace[i] \notin {"store", "load_data", "summarizer"}
            /\ ModelCalls = 1)

\* a flat conversational round whose text has surrounding blanks and a token
C3_Witness ==
    /\ pc = "done"
    /\ IsFlatConversation
    /\ Proposal.v.m[2].val.s = T_padded
    /\ result.cat = "conversation"

\* the query, stripped and upper-cased, begins with SELECT
BeginsWithSelect(q) ==
    Len(Upper(Strip(q))) >= Len(T_SELECT)
    /\ SubSeq(Upper(Strip(q)), 1, Len(T_SELECT)) = T_SELECT

\* the status of the envelope execute_sql_query returned
EnvelopeStatus == GetKey(json_loads(toolQuery.raw_result[1]).v, K_status)

\* C4: for a query that, stripped and upper-cased, does not begin with SELECT,
\* execute_sql_query returns an envelope with status error without calling the
\* store's execute_query, so nothing is committed to the store.
C4_NonSelectRejected ==
    (pc = "done" /\ toolQuery.executed # <<>> /\ ~BeginsWithSelect(toolQuery.executed[1]))
        => (/\ json_loads(toolQuery.raw_result[1]).ok
            /\ EnvelopeStatus = JStr(T_error)
            /\ \A i \in 1..Len(trace) : trace[i] # "store"
            /\ dbCommits = 0)

\* execute_sql_query was handed a DELETE statement
C4_Witness ==
    /\ pc = "done"
    /\ toolQuery.executed = <<Q_delete>>
    /\ EnvelopeStatus = JStr(T_error)

\* C5: a round never lets an exception escape; whatever the model and the store
\* do, it ends with a string result.
C5_NoExceptionEscapes ==
    /\ pc # "crashed"
    /\ (pc = "done" => result.cat # "")

\* the model's completion as call_local_llm sees it (line 322)
Raw == Strip(llmOut.text)

HasOpen == \E i \in 1..Len(Raw) : Raw[i] = "{"

FirstOpen == CHOOSE i \in 1..Len(Raw) : Raw[i] = "{" /\ \A j \in 1..(i - 1) : Raw[j] # "{"

\* the running brace depth at position j, counted from the first "{"
Depth(j) ==
    Cardinality({k \in FirstOpen..j : Raw[k] = "{"})
    - Cardinality({k \in FirstOpen..j : Raw[k] = "}"})

\* the positions at which the depth is back at zero
Closes == {j \in FirstOpen..Len(Raw) : Depth(j) = 0}

\* the slice from the first "{" to the first position where the depth is zero
Candidate == SubSeq(Raw, FirstOpen, CHOOSE j \in Closes : \A q \in Closes : j <= q)

Extracted == pc # "idle" /\ llmOut.kind = "text"

\* C6: when the stripped completion contains a "{", the candidate is the slice
\* from the first "{" to the first later position at which the running brace
\* depth is back at zero; when that slice strictly parses it is returned as it is.
C6_BalancedSliceReturned ==
    (Extracted /\ HasOpen /\ Closes # {} /\ json_loads(Candidate).ok)
        => llmResponse = [how |-> "value", text |-> Candidate]

\* the completion with commentary around a nested object
C6_Witness ==
    /\ Extracted
    /\ llmOut.text = T_spec_example
    /\ llmResponse.text = T_spec_example_json

\* the payload that reports the raw text, its double quotes written as ''
FailurePayload(raw) ==
    <<"{", QUOTE, "e", "r", "r", "o", "r", QUOTE, ":", " ", QUOTE,
      "LLM output was not clean JSON. Raw text: ">>
    \o ReplaceChar(raw, QUOTE, <<"'", "'">>) \o <<QUOTE, "}">>

C8_ReturnsJsonObject ==
    (pc \in {"called", "done", "skipped"}) => IsProposal

\* the query text the proposal carries
ProposedQuery == GetKey(ProposedArgs, K_query).s

ResolvedRound ==
    /\ pc = "done"
    /\ toolQuery.resolved # <<>>
    /\ HasKey(ProposedArgs, K_query)

\* an offset as the token pattern accepts it: a sign followed by digits
IsOffset(t) ==
    /\ Len(t) >= 2
    /\ t[1] \in {"+", "-"}
    /\ \A k \in 2..Len(t) : t[k] \in Digits

OffsetValue(t) ==
    IF t = <<>> THEN 0
    ELSE IF t[1] = "+" THEN DigitsToNat(Tail(t)) ELSE 0 - DigitsToNat(Tail(t))

\* the text between the head and the closing braces of a text that is one token
TokenOffset(t, head) == SubSeq(t, Len(head) + 1, Len(t) - 2)

IsTokenOf(t, head) ==
    /\ Len(t) >= Len(head) + 2
    /\ SubSeq(t, 1, Len(head)) = head
    /\ SubSeq(t, Len(t) - 1, Len(t)) = TokenTail
    /\ (TokenOffset(t, head) = <<>> \/ IsOffset(TokenOffset(t, head)))

\* C9: with the date fixed at year Y and month M, a year token with offset N
\* becomes the decimal integer Y+N or Y-N, and a month token becomes M+N or M-N
\* padded with zeros to two digits, for every digit string N the pattern accepts.
C9_OffsetApplied ==
    /\ (ResolvedRound /\ IsTokenOf(ProposedQuery, YearHead))
          => toolQuery.resolved[1] =
                IntToStr(env.year + OffsetValue(TokenOffset(ProposedQuery, YearHead)))
    /\ (ResolvedRound /\ IsTokenOf(ProposedQuery, MonthHead))
          => toolQuery.resolved[1] =
                Format02d(env.month + OffsetValue(TokenOffset(ProposedQuery, MonthHead)))

\* no part of the text is a placeholder token
TokenFree(q) ==
    \A i \in 1..Len(q) : \A j \in i..Len(q) :
        ~IsTokenOf(SubSeq(q, i, j), YearHead) /\ ~IsTokenOf(SubSeq(q, i, j), MonthHead)

\* C10: a query text with no placeholder token is left unchanged by the
\* resolution, so resolving it once or twice gives the same text.
C10_TokenFreeUnchanged ==
    (ResolvedRound /\ TokenFree(ProposedQuery))
        => (/\ toolQuery.resolved[1] = ProposedQuery
            /\ resolve_placeholders(toolQuery.resolved[1], env.year, env.month).text
                 = ProposedQuery)

\* a query that looks like a token but has a sign with no digits
C10_Witness ==
    /\ ResolvedRound
    /\ ProposedQuery = YearHead \o <<"+">> \o TokenTail
    /\ toolQuery.resolved[1] = ProposedQuery

\* the last n entries of a sequence
LastOf(h, n) == SubSeq(h, Len(h) - n + 1, Len(h))

\* C11: whatever rounds have completed, the history the next call of
\* call_local_llm sees has at most MAX_HISTORY_TURNS * 2 entries, and they are
\* the most recently appended entries in the order they were appended.
C11_HistoryBounded ==
    /\ Len(history) <= MAX_HISTORY_TURNS * 2
    /\ history = LastOf(appended, IF Len(appended) < MAX_HISTORY_TURNS * 2
                                  THEN Len(appended) ELSE MAX_HISTORY_TURNS * 2)

\* a third round has appended to a full history, and the first round's entries
\* differ from the ones kept
C11_Witness ==
    /\ pc = "done"
    /\ Len(appended) = 6
    /\ Len(history) = 4
    /\ appended[1] # appended[3]
    /\ appended[2] # appended[6]

\* the statement calls one of the aggregate functions
IsAggregateQuery(q) ==
    \E agg \in {<<"S","U","M","(">>, <<"C","O","U","N","T","(">>, <<"A","V","G","(">>} :
        Contains(Upper(q), agg)

\* the text of q after its first p
AfterFirst(q, p) ==
    SubSeq(q, (CHOOSE i \in 1..Len(q) :
                  MatchAt(q, i, p) /\ \A j \in 1..(i - 1) : ~MatchAt(q, j, p)) + Len(p),
           Len(q))

\* the name SQLite gives the result column of a statement with one result
\* expression and no FROM part: the alias after AS, else the expression's text
ResultColumn(q) ==
    IF Contains(q, <<" ","A","S"," ">>) THEN AfterFirst(q, <<" ","A","S"," ">>)
    ELSE AfterFirst(q, <<"S","E","L","E","C","T"," ">>)

\* what the store gives back for the aggregate q over no rows: one row with one
\* column holding NULL (SUM, AVG) or 0 (COUNT)
OneEmptyAggregate(q, store) ==
    /\ store.columns = <<ResultColumn(q)>>
    /\ Len(store.rows) = 1
    /\ IsZeroOrNone(store.rows[1][1])

\* the payload of the envelope execute_sql_query returned
EnvelopeData == GetKey(json_loads(toolQuery.raw_result[1]).v, K_data)

\* the store answered a SELECT of the SQL tool with rows (possibly none)
SelectAnswered ==
    /\ pc = "done"
    /\ toolQuery.executed # <<>>
    /\ BeginsWithSelect(toolQuery.executed[1])
    /\ env.store.kind = "rows"

\* C12: an aggregate SELECT over no matching rows gives status no_results with
\* the payload {column: 0.0}, whatever the column is called; a SELECT without
\* aggregate that matches no row gives status no_results with the payload [].
C12_EmptyAggregateIsZero ==
    /\ (SelectAnswered /\ IsAggregateQuery(toolQuery.executed[1])
            /\ OneEmptyAggregate(toolQuery.executed[1], env.store))
          => (/\ EnvelopeStatus = JStr(T_no_results)
              /\ EnvelopeData = Dict(<< <<env.store.columns[1], JNum(<<"0", ".", "0">>)>> >>))
    /\ (SelectAnswered /\ ~IsAggregateQuery(toolQuery.executed[1])
            /\ env.store.rows = <<>>)
          => (/\ EnvelopeStatus = JStr(T_no_results)
              /\ EnvelopeData = JArr(<<>>))

InTrace(event) == \E i \in 1..Len(trace) : trace[i] = event

\* the store raised on a SELECT of the SQL tool
StoreRaisedOnSelect ==
    /\ pc = "done"
    /\ toolQuery.executed # <<>>
    /\ BeginsWithSelect(toolQuery.executed[1])
    /\ env.store.kind \in {"sqlite_error", "other_error"}

\* C13: when the store raises while executing a SELECT of the SQL tool,
\* execute_sql_query returns an envelope with status error, the summarizer is
\* still invoked, and the round returns the summary as a string.
C13_StoreErrorBecomesEnvelope ==
    StoreRaisedOnSelect
        => (/\ json_loads(toolQuery.raw_result[1]).ok
            /\ EnvelopeStatus = JStr(T_error)
            /\ InTrace("summarizer")
            /\ result.cat = "summary"
            /\ result.color = "red")

\* the store raised something that is not a store error on SELECT 1, and the
\* summarizer answered
C13_Witness ==
    /\ StoreRaisedOnSelect
    /\ env.store.kind = "other_error"
    /\ env.summ.kind = "text"
    /\ toolQuery.executed = <<Q_select>>

\* C14: a proposal object that holds an error key ends the round with
\* 'Error from LLM generation: <detail>'; no tool runs and the model is not
\* called again, also when the object names a registered function with
\* valid arguments.
C14_ErrorKeyShortCircuits ==
    (pc = "done" /\ IsProposal /\ HasKey(Proposal.v, K_error))
        => (/\ result = GenerationError(PyStr(GetKey(Proposal.v, K_error)))
            /\ NoToolInvoked
            /\ trace = <<"llm">>)

\* the proposal holds an error key and a conversational call with arguments
C14_Witness ==
    /\ pc = "done"
    /\ IsProposal
    /\ HasKey(Proposal.v, K_error)
    /\ ProposedFunction = JStr(N_respond_conversationally)
    /\ ProposedValidation.ok
    /\ result.cat = "generation_error"

\* base, an optional space, then one sign and one or more decimal digits
IsOffsetOn(x, base) ==
    /\ Len(x) > Len(base)
    /\ SubSeq(x, 1, Len(base)) = base
    /\ \/ IsOffset(SubSeq(x, Len(base) + 1, Len(x)))
       \/ /\ x[Len(base) + 1] = " "
          /\ IsOffset(SubSeq(x, Len(base) + 2, Len(x)))

\* C15: every string handed to eval during placeholder resolution is the
\* current year or month as a decimal integer, an optional space, one sign and
\* one or more decimal digits; nothing else of the query text reaches eval.
C15_EvalArgumentsArithmetic ==
    \A i \in 1..Len(evalArgs) :
        \/ IsOffsetOn(evalArgs[i], IntToStr(env.year))
        \/ IsOffsetOn(evalArgs[i], IntToStr(env.month))

\* eval was handed a year expression whose offset has a leading zero
C15_Witness ==
    /\ pc = "done"
    /\ evalArgs = << <<"1","9","9","9","+","0","1">> >>

\* C16: after every call of the store's execute_query, whether it returned or
\* raised an exception of any type, the connection the call opened is closed.
C16_ConnectionClosed == connOpen = 0

\* C17: text that fails strict JSON parsing ends the round in the
\* generation-error category, with 'Error from LLM generation: <detail>', and
\* no tool is executed.
C17_ParseFailureIsGenerationError ==
    (pc = "done" /\ llmResponse.how = "value" /\ ~Proposal.ok)
        => (/\ result.cat = "generation_error"
            /\ StartsWith(result.text, <<"Error from LLM generation: ">>)
            /\ NoToolInvoked)

\* a proposal for execute_sql_query whose arguments do not pass SQLQueryArgs
SqlArgumentsInvalid ==
    /\ pc = "done"
    /\ IsProposal
    /\ ~HasKey(Proposal.v, K_error)
    /\ ProposedFunction = JStr(N_execute_sql_query)
    /\ (ProposedArgs.k # "obj" \/ ~ProposedValidation.ok)

\* C18: for execute_sql_query the resolver runs only on arguments that passed
\* validation: arguments with no query, a query that is not a string, or
\* arguments that are not an object never reach the resolver and end as a
\* validation error.
C18_ResolverAfterValidation ==
    SqlArgumentsInvalid
        => (/\ toolQuery.resolved = <<>>
            /\ evalArgs = <<>>
            /\ result.cat = "invalid_arguments")

\* C19: for every current month and every month token with an accepted offset,
\* the text put in place of the token is exactly two decimal digits.
C19_MonthTwoDigits ==
    (ResolvedRound /\ IsTokenOf(ProposedQuery, MonthHead))
        => (/\ Len(toolQuery.resolved[1]) = 2
            /\ toolQuery.resolved[1][1] \in Digits
            /\ toolQuery.resolved[1][2] \in Digits)

\* how often the event is in the trace
RECURSIVE CountIn(_, _)
CountIn(events, event) ==
    IF events = <<>> THEN 0
    ELSE (IF Head(events) = event THEN 1 ELSE 0) + CountIn(Tail(events), event)

\* the position of the event in the trace
PositionOf(event) == CHOOSE i \in 1..Len(trace) : trace[i] = event

ToolExecutors ==
    {"tool:respond_conversationally", "tool:query_salary_allowance",
     "tool:query_document_expiry", "tool:execute_sql_query"}

\* C20: in every round the summarizer is invoked exactly once when the tool
\* executed is execute_sql_query and not at all otherwise; it is invoked after
\* the executor and its store query, with the resolved query text as context;
\* at most one executor runs, once, and the model is called at most twice.
C20_SummarizerOnlyAfterSql ==
    (pc = "done")
        => (/\ CountIn(trace, "summarizer")
                 = (IF InTrace("tool:execute_sql_query") THEN 1 ELSE 0)
            /\ Cardinality({i \in 1..Len(trace) : trace[i] \in ToolExecutors}) <= 1
            /\ CountIn(trace, "llm") <= 2
            /\ InTrace("summarizer")
                  => (/\ PositionOf("tool:execute_sql_query") < PositionOf("summarizer")
                      /\ InTrace("store") => PositionOf("store") < PositionOf("summarizer")
                      /\ \A i \in 1..Len(trace) :
                            (trace[i] = "llm" /\ i > 1) => i > PositionOf("summarizer")
                      /\ toolQuery.context
                            = << <<"SQL Query: ">> \o toolQuery.resolved[1] >>
                      /\ HasKey(ProposedArgs, K_query)
                            => toolQuery.resolved[1]
                                 = resolve_placeholders(ProposedQuery, env.year,
                                                        env.month).text))

\* the SQL tool ran a query that held tokens, the store answered and the model
\* summarised
C20_Witness ==
    /\ pc = "done"
    /\ trace = <<"llm", "tool:execute_sql_query", "store", "summarizer", "llm">>
    /\ HasKey(ProposedArgs, K_query)
    /\ ProposedQuery = Q_select_lower
    /\ toolQuery.resolved[1] # ProposedQuery

\* what the summarizer returned for the round's second pass
SummaryText ==
    natural_language_summary(toolQuery.context[1], toolQuery.raw_result[1], env.summ)

\* C21: when execute_sql_query was executed, the final answer is red exactly
\* when the envelope's status is error and green for success and no_results,
\* whatever text the summarizer produced.
C21_ColourFollowsStatus ==
    (pc = "done" /\ toolQuery.executed # <<>>)
        => (/\ EnvelopeStatus \in {JStr(T_error), JStr(T_success), JStr(T_no_results)}
            /\ result.color = (IF EnvelopeStatus = JStr(T_error) THEN "red" ELSE "green")
            /\ result.text = Colored(<<"AI Assistant: ">> \o SummaryText, result.color))

\* the store answered with rows and the summarizer failed
C21_Witness ==
    /\ pc = "done"
    /\ toolQuery.executed # <<>>
    /\ EnvelopeStatus = JStr(T_success)
    /\ env.summ.kind = "raise"
    /\ result.color = "green"

\* the arguments the stated precedence selects: args, else arguments, else the
\* flat response of a conversational call, else none
PrecedenceArgs ==
    IF HasKey(Proposal.v, K_args) THEN GetKey(Proposal.v, K_args)
    ELSE IF HasKey(Proposal.v, K_arguments) THEN GetKey(Proposal.v, K_arguments)
    ELSE IF ProposedFunction = JStr(N_respond_conversationally)
            /\ HasKey(Proposal.v, K_response)
    THEN Dict(<< <<K_response, GetKey(Proposal.v, K_response)>> >>)
    ELSE Dict(<<>>)

\* a proposal for a registered tool that reached the dispatch of its arguments
ToolProposed ==
    /\ pc = "done"
    /\ IsProposal
    /\ ~HasKey(Proposal.v, K_error)
    /\ NamesRegisteredTool

\* C22: the arguments used are the args object when that key is present, else
\* the arguments object, else, for respond_conversationally only, the flat
\* response field; a flat field of any other tool is never used.
C22_ArgumentPrecedence ==
    ToolProposed =>
        LET used == PrecedenceArgs
            function_name == ProposedFunction.s
        IN  /\ (function_name = N_respond_conversationally
                    /\ used.k = "obj" /\ HasKey(used, K_response)
                    /\ GetKey(used, K_response).k = "str")
                  => result.text = Colored(<<"AI Assistant: ">>
                                           \o GetKey(used, K_response).s, "white")
            /\ (function_name = N_execute_sql_query
                    /\ used.k = "obj" /\ toolQuery.resolved # <<>>)
                  => toolQuery.resolved[1] =
                        resolve_placeholders(IF HasKey(used, K_query)
                                             THEN GetKey(used, K_query).s ELSE <<>>,
                                             env.year, env.month).text
            /\ (function_name # N_execute_sql_query /\ used = Dict(<<>>))
                  => (result.cat = "invalid_arguments" /\ NoToolInvoked)

\* a conversational call that carries args, arguments and a flat response
C22_Witness ==
    /\ ToolProposed
    /\ HasKey(Proposal.v, K_args)
    /\ HasKey(Proposal.v, K_arguments)
    /\ HasKey(Proposal.v, K_response)
    /\ result.cat = "conversation"

\* the arguments hold a field the schema of the proposed tool does not declare
HasUnknownField ==
    /\ ProposedArgs.k = "obj"
    /\ \E i \in 1..Len(ProposedArgs.m) :
          \A j \in 1..Len(SchemaOf(ProposedFunction.s)) :
              SchemaOf(ProposedFunction.s)[j].name # ProposedArgs.m[i].key

\* C23: a proposal for a registered tool whose arguments hold a field the
\* tool's schema does not declare is aborted with a validation error, and the
\* tool is not invoked.
C23_UnknownFieldsRejected ==
    (ToolProposed /\ HasUnknownField)
        => (result.cat = "invalid_arguments" /\ NoToolInvoked)

\* C24: a Back at the prompt leaves the assistant with an empty history, and
\* the next entry comes to its first prompt with the history still empty,
\* whatever the rounds before the Back appended.
C24_BackClearsHistory ==
    [][ /\ (pc' = "left" => history' = <<>>)
        /\ (pc = "left" => pc' = "idle" /\ history' = <<>>) ]_vars

\* the user has left after a round that appended a question and its answer
C24_Witness ==
    /\ pc = "left"
    /\ result.cat = "conversation"
    /\ userQuery # <<>>
    /\ history = <<>>

\* the entries of a history taken two by two
PairsOf(h) == { <<h[2 * i - 1], h[2 * i]>> : i \in 1..(Len(h) \div 2) }

\* C28: the history always has an even number of entries, a user entry at
\* every odd position and an assistant entry at every even one; the pair a
\* completed round leaves last is its question and its result text, and a
\* step only ever keeps pairs or adds that pair, so the trim never splits one.
C28_HistoryPairs ==
    /\ [](/\ Len(history) % 2 = 0
          /\ \A i \in 1..Len(history) :
                history[i].role = IF i % 2 = 1 THEN "user" ELSE "assistant"
          /\ pc = "done" =>
                /\ Len(history) >= 2
                /\ history[Len(history) - 1] = Turn("user", userQuery[1])
                /\ history[Len(history)] = Turn("assistant", result.text))
    /\ [][PairsOf(history') \subseteq
            PairsOf(history) \cup
              (IF pc' = "done"
               THEN {<<Turn("user", userQuery[1]), Turn("assistant", result'.text)>>}
               ELSE {})]_vars

\* a third round has been trimmed: the history starts with the question of
\* the second round, and the answers kept differ
C28_Witness ==
    /\ pc = "done"
    /\ Len(appended) = 6
    /\ history[1] = appended[3]
    /\ history[1].role = "user"
    /\ history[2].content # history[4].content

\* a step that ends a round
RoundEnds == pc \in {"idle", "called"} /\ pc' \in {"skipped", "done", "crashed"}

\* C30: a round in which call_local_llm returns None leaves the history as it
\* was and runs no tool; every other round ends with exactly two more entries,
\* the question and then the round's result.
C30_RoundAppendsTwo ==
    [][RoundEnds =>
         IF llmResponse'.how = "none"
         THEN /\ history' = history
              /\ appended' = appended
              /\ \A i \in 1..Len(trace') : trace'[i] \notin ToolExecutors
         ELSE /\ appended' = appended \o <<Turn("user", userQuery'[1]),
                                            Turn("assistant", result'.text)>>
              /\ history' = TrimHistory(appended')]_vars

\* the stripped completion from its first "{" on
AfterOpen == SubSeq(Raw, FirstOpen, Len(Raw))

\* the lengths n for which the first n characters of AfterOpen are a JSON object
ObjectLengths ==
    {n \in 2..Len(AfterOpen) :
        AfterOpen[n] = "}" /\ json_loads(SubSeq(AfterOpen, 1, n)).ok}

\* the first position of Raw at which the running brace depth is back at zero
\* is position n of AfterOpen
ClosesFirstAt(n) ==
    /\ FirstOpen + n - 1 \in Closes
    /\ \A q \in Closes : FirstOpen + n - 1 <= q

\* C25 as stated: whenever a JSON object starts at the first "{" of the stripped
\* completion, whatever its strings hold, call_local_llm returns that object.
C25_ObjectAtFirstBraceReturned ==
    (Extracted /\ HasOpen) =>
        \A n \in ObjectLengths :
            llmResponse = [how |-> "value", text |-> SubSeq(AfterOpen, 1, n)]

\* C25 as amended: whenever a JSON object starts at the first "{" of the
\* stripped completion and the count of "{" less "}", braces inside strings
\* counted too, is first back at zero at the object's last character,
\* call_local_llm returns that object.
C25_BraceBalancedObjectReturned ==
    (Extracted /\ HasOpen) =>
        \A n \in ObjectLengths :
            ClosesFirstAt(n) =>
                llmResponse = [how |-> "value", text |-> SubSeq(AfterOpen, 1, n)]

\* an object whose string holds a balanced pair of braces, commentary after it
C25_Witness ==
    /\ Extracted
    /\ Raw = <<"{", QUOTE, "a", QUOTE, ":", QUOTE, "{", "}", QUOTE, "}", " ", "o", "k">>
    /\ ObjectLengths = {10}
    /\ llmResponse.text = SubSeq(Raw, 1, 10)

\* C26: after the resolution, the query text handed to execute_sql_query and
\* the context handed to the summarizer hold no text that either token pattern
\* matches, whatever the proposed query was, nested tokens included.
C26_NoTokenRemains ==
    ResolvedRound =>
        /\ TokenFree(toolQuery.resolved[1])
        /\ \A k \in 1..Len(toolQuery.executed) : TokenFree(toolQuery.executed[k])
        /\ \A k \in 1..Len(toolQuery.context) : TokenFree(toolQuery.context[k])

\* C27: no round of the SQL tool commits to the store: a statement that
\* passes the tool's SELECT test is a SELECT for execute_query as well, which
\* fetches and does not take its commit branch.
C27_ToolPathNeverCommits ==
    (pc = "done" /\ InTrace("tool:execute_sql_query")) =>
        /\ dbCommits = 0
        /\ InTrace("store") =>
              /\ BeginsWithSelect(toolQuery.executed[1])
              /\ (env.store.kind = "rows" => EnvelopeStatus # JStr(T_error))

\* the store answered a statement that begins with a space and a lower-case
\* select
C27_Witness ==
    /\ pc = "done"
    /\ InTrace("store")
    /\ toolQuery.executed # <<>>
    /\ ~StartsWith(toolQuery.executed[1], T_SELECT)
    /\ EnvelopeStatus = JStr(T_success)
    /\ dbCommits = 0

\* the store's one column carries the name the statement q gives it
ColumnFits(q, store) ==
    /\ Contains(q, <<"S","E","L","E","C","T"," ">>)
    /\ store.columns = <<ResultColumn(q)>>

\* the rows as execute_sql_query writes them into the payload of a success
RowsAsData(store) ==
    JArr([i \in 1..Len(store.rows) |-> RowDict(store.columns, store.rows[i])])

\* C29: execute_sql_query gives status no_results only when the store gave no
\* row or the statement was an aggregate over no matching row; when a SELECT
\* without aggregate gets a row back, even a single 0 or NULL in a column
\* whose name contains SUM, COUNT or AVG, the status is success and the row
\* is in the payload.
C29_NoResultsOnlyWhenEmpty ==
    (SelectAnswered /\ ColumnFits(toolQuery.executed[1], env.store)) =>
        /\ EnvelopeStatus = JStr(T_no_results) =>
              \/ env.store.rows = <<>>
              \/ /\ IsAggregateQuery(toolQuery.executed[1])
                 /\ OneEmptyAggregate(toolQuery.executed[1], env.store)
        /\ (env.store.rows # <<>> /\ ~IsAggregateQuery(toolQuery.executed[1])) =>
              /\ EnvelopeStatus = JStr(T_success)
              /\ EnvelopeData = RowsAsData(env.store)

====
